---- MODULE Spec2Model ----
(***************************************************************************)
(* A model of mcp-skill-hub: the debounced SKILL.md watcher (watcher.py)   *)
(* and the reload coordinator (server.py) over the in-memory repository.   *)
(*                                                                         *)
(* SpecWatcher  : SkillWatcher / SkillFileHandler with their threads: the  *)
(*                owner thread calling start() and stop(), the observer    *)
(*                thread dispatching events, one thread per Timer.         *)
(* SpecServer   : SkillsServer.reload_skills / _on_skill_change on the     *)
(*                event loop, the scan in the executor thread, the tree.   *)
(* SpecScanner  : one SkillScanner.scan() over a tree, folder by folder.   *)
(* SpecHandler  : one _on_skill_change call, whatever parser and add do.   *)
(* SpecParser   : one MarkdownSkillParser.parse() call on a file's text.   *)
(* SpecRepository : one SkillRepository under any sequence of calls.       *)
(* SpecDependencies : one _parse_dependencies call on a decoded value.     *)
(* SpecValidation : one Skill.validate_skill() as parse() runs it.         *)
(***************************************************************************)
EXTENDS Integers, Sequences, FiniteSets, TLC

(***************************************************************************)
(* Bounds of the model.                                                    *)
(***************************************************************************)
\* threading.Timer objects created in one behaviour (accepted notifications)
MaxTimers == 3
\* start() and stop() calls in one behaviour
MaxCalls == 2
\* _on_skill_change coroutines waiting on the event loop at one time
MaxQueue == 1

\* arguments other than None in one search() call
MaxFilters == 2
\* items of one list of dependencies
MaxItems == 2
\* entries of one example_files list
MaxExamples == 2

\* SkillFileHandler.debounce_delay, the delay D, in clock ticks
DebounceTicks == 2

VARIABLES
    \* ---- watcher.py -----------------------------------------------------
    skills_dir_exists,  \* self.skills_dir.exists() as start() sees it
    is_watching,        \* SkillWatcher._is_watching
    observer,           \* SkillWatcher.observer: "none" or "set"
    monitor,            \* the observer thread: "none", "running", "stopping"
    stop_pc,            \* where the owner thread is inside stop()
    debounce_timers,    \* SkillFileHandler._debounce_timers: path -> timer id (0: no key)
    timers,             \* every threading.Timer: id -> [path, remaining, st], st one of
                        \*   "waiting" (in finished.wait), "trigger" (running
                        \*   _trigger_callback), "dead" (cancelled, ended, not created)
    next_timer,         \* id of the next Timer object
    \* ---- what the watcher did (history) ----------------------------------
    n_observers,        \* Observer() objects created
    n_calls,            \* start()/stop() calls made
    last_call,          \* the last start()/stop() call: [op, was_watching, returned]
    submitted,          \* path -> run_coroutine_threadsafe calls made for it
    accepted,           \* path -> notifications that passed the filter
    since_accept,       \* path -> ticks since the last accepted one (-1: none yet)
    all_close,          \* path -> every gap between accepted notifications was < D
    all_far,            \* path -> every gap between accepted notifications was > D
    ever_stopped,       \* stop() has begun tearing the watcher down at least once
    inflight_at_stop,   \* timers already firing when cleanup() ran
    \* ---- server.py, scanner.py, storage/repository.py --------------------
    tree,               \* the skills tree: folder -> what its SKILL.md holds
    skills,             \* SkillRepository._skills, a dict: records in insertion order
    server_pc,          \* SkillsServer.start(): "new", "starting", "serving"
    reload_pc,          \* reload_skills(): "idle", "scanning" (awaiting the
                        \*   executor), "scanned" (scan done, not yet resumed),
                        \*   "adding" (between clear() and the return)
    scan_idx,           \* position of scan()'s loop in the sorted folders
    scanned,            \* scan()'s local `skills`, then reload_skills' own
    add_idx,            \* position of the repopulation loop in `scanned`
    loaded_count,       \* reload_skills' local counters
    failed_count,
    pending,            \* folder -> a debounce timer is pending for its SKILL.md
    loop_queue,         \* _on_skill_change coroutines submitted to the loop (paths)
    \* ---- what the server did (history) -----------------------------------
    read_during,        \* reload_pc when an MCP handler last read the catalog
    rejected,           \* names whose add() raised in the repopulation under way
                        \*   (reload_skills logs each one, server.py:197)
    \* ---- scanner.py: one scan() of a tree that holds still ----------------
    fs_root,            \* skills_dir: [kind, entries], entries: name -> entry
    scan_pc,            \* scan(): "start", "loop", "done"
    scan_items,         \* scan()'s local `items`: the sorted listing
    scan_pos,           \* position of the loop in scan_items
    scan_skills,        \* scan()'s local `skills`, a dict in insertion order
    scan_stats,         \* scan()'s local `stats`: [loaded, skipped, failed]
    \* ---- server.py: one call of _on_skill_change -------------------------
    hc,                 \* [pc, skills, before, folder, parser, add_raises, escaped]
    \* ---- parsers/markdown.py: one call of parse() -------------------------
    pr,                 \* [pc, path, folder_kind, file, out]
    \* ---- storage/repository.py: one SkillRepository and its callers -------
    repo_skills,        \* SkillRepository._skills, a dict in insertion order
    repo_call,          \* the last call: [op, arg, before, raised, result]
    repo_latest,        \* name -> the record of the last add() that succeeded
                        \*   and was not followed by remove(name) or clear()
    last_all,           \* [all |-> what get_all() returned] since the last write call
    \* ---- parsers/markdown.py: one call of _parse_dependencies ------------
    dp,                 \* [pc, deps, out]
    \* ---- models/skill.py: one validate_skill() at the end of parse() -------
    vs                  \* [pc, skill, disk, errors, out]

wvars == <<skills_dir_exists, is_watching, observer, monitor, stop_pc,
           debounce_timers, timers, next_timer, n_observers, n_calls, last_call,
           submitted, accepted, since_accept, all_close, all_far, ever_stopped,
           inflight_at_stop>>

svars == <<tree, skills, server_pc, reload_pc, scan_idx, scanned, add_idx, loaded_count,
           failed_count, pending, loop_queue, read_during, rejected>>

cvars == <<fs_root, scan_pc, scan_items, scan_pos, scan_skills, scan_stats>>

hvars == <<hc>>

pvars == <<pr>>

rvars == <<repo_skills, repo_call, repo_latest, last_all>>

dvars == <<dp>>

vvars == <<vs>>

vars == <<wvars, svars, cvars, hvars, pvars, rvars, dvars, vvars>>

\* what the actions of one component leave alone
not_wvars == <<svars, cvars, hvars, pvars, rvars, dvars, vvars>>
not_svars == <<wvars, cvars, hvars, pvars, rvars, dvars, vvars>>
not_cvars == <<wvars, svars, hvars, pvars, rvars, dvars, vvars>>
not_hvars == <<wvars, svars, cvars, pvars, rvars, dvars, vvars>>
not_pvars == <<wvars, svars, cvars, hvars, rvars, dvars, vvars>>
not_rvars == <<wvars, svars, cvars, hvars, pvars, dvars, vvars>>
not_dvars == <<wvars, svars, cvars, hvars, pvars, rvars, vvars>>
not_vvars == <<wvars, svars, cvars, hvars, pvars, rvars, dvars>>

(***************************************************************************)
(* Paths.  A path is the sequence of its components below skills_dir, a    *)
(* component the sequence of its characters.                               *)
(***************************************************************************)
SKILL_MD == <<"S", "K", "I", "L", "L", ".", "m", "d">>
README_MD == <<"R", "E", "A", "D", "M", "E", ".", "m", "d">>
Alpha == <<"a", "l", "p", "h", "a">>
Beta == <<"b", "e", "t", "a">>
DotGit == <<".", "g", "i", "t">>
DotHidden == <<".", "h", "i", "d", "d", "e", "n">>
Venv == <<"v", "e", "n", "v">>
Pycache == <<"_", "_", "p", "y", "c", "a", "c", "h", "e", "_", "_">>
Private == <<"_", "p", "r", "i", "v", "a", "t", "e">>
Nested == <<"n", "e", "s", "t", "e", "d">>

\* SkillScanner.IGNORED_FOLDERS (the members the model's trees use)
IGNORED_FOLDERS == {Pycache, DotGit, Venv}

PathAlpha == <<Alpha, SKILL_MD>>
PathBeta == <<Beta, SKILL_MD>>

\* the paths the observer reports
EventPaths ==
    { PathAlpha, PathBeta,
      <<SKILL_MD>>, <<Alpha, README_MD>>, <<Alpha, Nested, SKILL_MD>>,
      <<DotHidden, SKILL_MD>>, <<DotGit, SKILL_MD>>, <<Venv, SKILL_MD>>,
      <<Pycache, SKILL_MD>>, <<Private, SKILL_MD>> }

\* the events the observer dispatches: FileSystemEvent.src_path, .is_directory
Events ==
    [path : EventPaths, is_directory : {FALSE}]
        \cup [path : {<<Alpha>>, <<Alpha, Nested>>, PathAlpha}, is_directory : {TRUE}]

NoPath == <<>>
TimerIds == 1..MaxTimers

StartsWith(name, ch) == Len(name) > 0 /\ name[1] = ch

\* the filter without its last check
IsSkillFileUnderscoreAllowed(path) ==
    IF path[Len(path)] # SKILL_MD THEN FALSE
    ELSE IF Len(path) # 2 THEN FALSE
    ELSE IF path[1] \in IGNORED_FOLDERS THEN FALSE
    ELSE IF StartsWith(path[1], ".") THEN FALSE
    ELSE TRUE

\* SkillFileHandler._is_skill_file_in_valid_folder; path.parent.parent is
\* skills_dir exactly when the path has two components below it
IsSkillFileInValidFolder(path) ==
    IF path[Len(path)] # SKILL_MD THEN FALSE
    ELSE IF Len(path) # 2 THEN FALSE
    ELSE IF path[1] \in IGNORED_FOLDERS THEN FALSE
    ELSE IF StartsWith(path[1], ".") THEN FALSE
    ELSE IF StartsWith(path[1], "_") THEN FALSE
    ELSE TRUE

AcceptedPaths == {p \in EventPaths : IsSkillFileInValidFolder(p)}

DeadTimer == [path |-> NoPath, remaining |-> 0, st |-> "dead"]

\* threads of Timer objects for path p that have not ended
LiveTimers(p) == {t \in TimerIds : timers[t].path = p /\ timers[t].st # "dead"}

\* Timer.cancel(): sets finished; only a Timer still in finished.wait() is stopped
Cancel(tm, t) ==
    IF tm[t].st = "waiting" THEN [tm EXCEPT ![t] = DeadTimer] ELSE tm

(***************************************************************************)
(* The clock.  A waiting Timer wakes no later than its deadline: time does *)
(* not pass a deadline while the Timer still waits.  What a thread does    *)
(* once awake takes as long as the scheduler lets it.                      *)
(***************************************************************************)
Tick ==
    /\ \A t \in TimerIds : timers[t].st = "waiting" => timers[t].remaining > 0
    /\ timers' = [t \in TimerIds |->
                    IF timers[t].st = "waiting"
                    THEN [timers[t] EXCEPT !.remaining = @ - 1]
                    ELSE timers[t]]
    /\ since_accept' = [p \in AcceptedPaths |->
                    IF since_accept[p] < 0 \/ since_accept[p] > DebounceTicks
                    THEN since_accept[p]
                    ELSE since_accept[p] + 1]
    /\ UNCHANGED <<skills_dir_exists, is_watching, observer, monitor, stop_pc,
                   debounce_timers, next_timer, n_observers, n_calls, last_call,
                   submitted, accepted, all_close, all_far, ever_stopped,
                   inflight_at_stop>>
    /\ UNCHANGED not_wvars

(***************************************************************************)
(* SkillFileHandler                                                        *)
(***************************************************************************)
\* a _handle_event that starts the new Timer without cancelling the old one
HandleEventLockedNoCancel(path) ==
    /\ next_timer <= MaxTimers
    /\ timers' = [timers EXCEPT ![next_timer] =
                        [path |-> path, remaining |-> DebounceTicks, st |-> "waiting"]]
    /\ debounce_timers' = [debounce_timers EXCEPT ![path] = next_timer]
    /\ next_timer' = next_timer + 1

\* a _handle_event with one debounce for all paths: it cancels every Timer
\* that still waits before it starts the new one
HandleEventLockedCancelAll(path) ==
    /\ next_timer <= MaxTimers
    /\ timers' = [t \in TimerIds |->
                    IF t = next_timer
                    THEN [path |-> path, remaining |-> DebounceTicks, st |-> "waiting"]
                    ELSE Cancel(timers, t)[t]]
    /\ debounce_timers' = [debounce_timers EXCEPT ![path] = next_timer]
    /\ next_timer' = next_timer + 1

\* _handle_event, the block under self._lock: cancel the path's Timer, create
\* and start a new one
HandleEventLocked(path) ==
    /\ next_timer <= MaxTimers
    /\ LET cancelled == IF debounce_timers[path] # 0
                        THEN Cancel(timers, debounce_timers[path])
                        ELSE timers
       IN timers' = [cancelled EXCEPT ![next_timer] =
                        [path |-> path, remaining |-> DebounceTicks, st |-> "waiting"]]
    /\ debounce_timers' = [debounce_timers EXCEPT ![path] = next_timer]
    /\ next_timer' = next_timer + 1

\* on_modified / on_created / on_deleted -> _handle_event, run by the observer
\* thread; the event type only reaches the log
HandleEvent(path, is_directory) ==
    /\ monitor = "running"
    /\ IF ~is_directory /\ IsSkillFileInValidFolder(path)
       THEN /\ HandleEventLocked(path)
            /\ accepted' = [accepted EXCEPT ![path] = @ + 1]
            /\ since_accept' = [since_accept EXCEPT ![path] = 0]
            /\ all_close' = [all_close EXCEPT ![path] =
                    @ /\ (accepted[path] = 0 \/ since_accept[path] < DebounceTicks)]
            /\ all_far' = [all_far EXCEPT ![path] =
                    @ /\ (accepted[path] = 0 \/ since_accept[path] > DebounceTicks)]
       ELSE UNCHANGED <<timers, debounce_timers, next_timer, accepted, since_accept,
                        all_close, all_far>>
    /\ UNCHANGED <<skills_dir_exists, is_watching, observer, monitor, stop_pc,
                   n_observers, n_calls, last_call, submitted, ever_stopped,
                   inflight_at_stop>>
    /\ UNCHANGED not_wvars

\* Timer.run: finished.wait(interval) timed out and finished is not set, so
\* the thread calls _trigger_callback
TimerExpire(t) ==
    /\ timers[t].st = "waiting"
    /\ timers[t].remaining = 0
    /\ timers' = [timers EXCEPT ![t].st = "trigger"]
    /\ UNCHANGED <<skills_dir_exists, is_watching, observer, monitor, stop_pc,
                   debounce_timers, next_timer, n_observers, n_calls, last_call,
                   submitted, accepted, since_accept, all_close, all_far,
                   ever_stopped, inflight_at_stop>>
    /\ UNCHANGED not_wvars

\* a _trigger_callback that returns without submitting when the path's key
\* is already gone
TriggerCallbackOnlyIfPending(t) ==
    /\ timers[t].st = "trigger"
    /\ debounce_timers' = [debounce_timers EXCEPT ![timers[t].path] = 0]
    /\ submitted' = [submitted EXCEPT ![timers[t].path] =
                        IF debounce_timers[timers[t].path] = 0 THEN @ ELSE @ + 1]
    /\ timers' = [timers EXCEPT ![t] = DeadTimer]
    /\ UNCHANGED <<skills_dir_exists, is_watching, observer, monitor, stop_pc,
                   next_timer, n_observers, n_calls, last_call, accepted,
                   since_accept, all_close, all_far, ever_stopped, inflight_at_stop>>
    /\ UNCHANGED not_wvars

\* _trigger_callback: under self._lock drop the path's key, whichever Timer it
\* holds; then asyncio.run_coroutine_threadsafe(self.callback(path), self.loop)
TriggerCallback(t) ==
    /\ timers[t].st = "trigger"
    /\ debounce_timers' = [debounce_timers EXCEPT ![timers[t].path] = 0]
    /\ submitted' = [submitted EXCEPT ![timers[t].path] = @ + 1]
    /\ timers' = [timers EXCEPT ![t] = DeadTimer]
    /\ UNCHANGED <<skills_dir_exists, is_watching, observer, monitor, stop_pc,
                   next_timer, n_observers, n_calls, last_call, accepted,
                   since_accept, all_close, all_far, ever_stopped, inflight_at_stop>>
    /\ UNCHANGED not_wvars

\* cleanup(): cancel every Timer the dict holds, clear the dict
Cleanup ==
    /\ timers' = [t \in TimerIds |->
                    IF \E p \in AcceptedPaths : debounce_timers[p] = t
                    THEN Cancel(timers, t)[t]
                    ELSE timers[t]]
    /\ debounce_timers' = [p \in AcceptedPaths |-> 0]

(***************************************************************************)
(* SkillWatcher                                                            *)
(***************************************************************************)
\* a start() without the "already running" early return
StartNoGuard ==
    /\ stop_pc = "idle"
    /\ n_calls < MaxCalls
    /\ n_calls' = n_calls + 1
    /\ last_call' = [op |-> "start", was_watching |-> is_watching, returned |-> TRUE]
    /\ IF ~skills_dir_exists
       THEN UNCHANGED <<observer, monitor, is_watching, n_observers,
                        inflight_at_stop>>
       ELSE /\ observer' = "set"
            /\ monitor' = "running"
            /\ is_watching' = TRUE
            /\ n_observers' = n_observers + 1
            /\ inflight_at_stop' = {}
    /\ UNCHANGED <<skills_dir_exists, stop_pc, debounce_timers, timers, next_timer,
                   submitted, accepted, since_accept, all_close, all_far,
                   ever_stopped>>
    /\ UNCHANGED not_wvars

\* start(): a no-op when already watching or when skills_dir is missing
Start ==
    /\ stop_pc = "idle"
    /\ n_calls < MaxCalls
    /\ n_calls' = n_calls + 1
    /\ last_call' = [op |-> "start", was_watching |-> is_watching, returned |-> TRUE]
    /\ IF is_watching \/ ~skills_dir_exists
       THEN UNCHANGED <<observer, monitor, is_watching, n_observers,
                        inflight_at_stop>>
       ELSE /\ observer' = "set"
            /\ monitor' = "running"
            /\ is_watching' = TRUE
            /\ n_observers' = n_observers + 1
            /\ inflight_at_stop' = {}
    /\ UNCHANGED <<skills_dir_exists, stop_pc, debounce_timers, timers, next_timer,
                   submitted, accepted, since_accept, all_close, all_far,
                   ever_stopped>>
    /\ UNCHANGED not_wvars

\* stop(), to observer.stop(): a no-op when not watching
StopBegin ==
    /\ stop_pc = "idle"
    /\ n_calls < MaxCalls
    /\ n_calls' = n_calls + 1
    /\ last_call' = [op |-> "stop", was_watching |-> is_watching,
                      returned |-> ~is_watching]
    /\ IF ~is_watching
       THEN UNCHANGED <<stop_pc, monitor, ever_stopped>>
       ELSE /\ stop_pc' = "join"
            /\ monitor' = IF observer = "set" THEN "stopping" ELSE monitor
            /\ ever_stopped' = TRUE
    /\ UNCHANGED <<skills_dir_exists, is_watching, observer, debounce_timers, timers,
                   next_timer, n_observers, submitted, accepted, since_accept,
                   all_close, all_far, inflight_at_stop>>
    /\ UNCHANGED not_wvars

\* stop(), observer.join(timeout=5.0) returns, the thread ended or not, and
\* observer = None
StopJoin(thread_ended) ==
    /\ stop_pc = "join"
    /\ stop_pc' = "cleanup"
    /\ observer' = "none"
    /\ monitor' = IF thread_ended THEN "none" ELSE "stopping"
    /\ UNCHANGED <<skills_dir_exists, is_watching, debounce_timers, timers,
                   next_timer, n_observers, n_calls, last_call, submitted, accepted,
                   since_accept, all_close, all_far, ever_stopped, inflight_at_stop>>
    /\ UNCHANGED not_wvars

\* a stop() that cleans up but leaves _is_watching set
StopCleanupKeepsFlag ==
    /\ stop_pc = "cleanup"
    /\ Cleanup
    /\ inflight_at_stop' = {t \in TimerIds : timers[t].st = "trigger"}
    /\ stop_pc' = "idle"
    /\ last_call' = [last_call EXCEPT !.returned = TRUE]
    /\ UNCHANGED <<skills_dir_exists, is_watching, observer, monitor, next_timer,
                   n_observers, n_calls, submitted, accepted, since_accept,
                   all_close, all_far, ever_stopped>>
    /\ UNCHANGED not_wvars

\* stop(), event_handler.cleanup() and _is_watching = False
StopCleanup ==
    /\ stop_pc = "cleanup"
    /\ Cleanup
    /\ inflight_at_stop' = {t \in TimerIds : timers[t].st = "trigger"}
    /\ is_watching' = FALSE
    /\ stop_pc' = "idle"
    /\ last_call' = [last_call EXCEPT !.returned = TRUE]
    /\ UNCHANGED <<skills_dir_exists, observer, monitor, next_timer, n_observers,
                   n_calls, submitted, accepted, since_accept, all_close, all_far,
                   ever_stopped>>
    /\ UNCHANGED not_wvars

(***************************************************************************)
(* Claims about the watcher, checked under SpecWatcher.                    *)
(***************************************************************************)
\* no thread of a Timer for path p is left
Quiescent(p) == LiveTimers(p) = {}

\* the last call was stop(), and it has returned
StopReturned == last_call.op = "stop" /\ last_call.returned

\* C2: N >= 1 accepted notifications for one path, each less than D after the
\* one before it, lead to exactly one submitted callback for the path once
\* its timers are done, and to none before, whatever the threads' interleaving
\* (the watcher not being stopped meanwhile).
C2_DebounceCoalescing ==
    \A p \in AcceptedPaths :
        (accepted[p] >= 1 /\ all_close[p] /\ ~ever_stopped)
            => /\ submitted[p] <= 1
               /\ Quiescent(p) => submitted[p] = 1

C2_Witness ==
    \E p \in AcceptedPaths :
        /\ accepted[p] >= 2 /\ all_close[p] /\ ~ever_stopped
        /\ Quiescent(p) /\ submitted[p] = 1

EligibleSentinel(path) ==
    /\ Len(path) = 2
    /\ path[2] = SKILL_MD
    /\ ~StartsWith(path[1], ".")
    /\ ~StartsWith(path[1], "_")
    /\ path[1] \notin IGNORED_FOLDERS

\* C23: a debounce timer is started, and a callback later submitted, only
\* for a notification whose path is SKILL.md directly inside an eligible
\* folder that is a direct child of the root; a notification for any other
\* path, or for a directory, changes nothing in the watcher.
C23_OnlyEligibleNotifications ==
    /\ [](/\ \A t \in TimerIds :
                timers[t].st # "dead" => EligibleSentinel(timers[t].path)
          /\ \A p \in DOMAIN submitted :
                (submitted[p] > 0 \/ accepted[p] > 0 \/ debounce_timers[p] # 0)
                    => EligibleSentinel(p))
    /\ [][\A e \in Events :
              ((e.is_directory \/ ~EligibleSentinel(e.path))
                  /\ HandleEvent(e.path, e.is_directory))
              => UNCHANGED wvars]_vars

\* a callback was submitted for one eligible path while a timer is pending
\* for the other
C23_Witness ==
    /\ monitor = "running"
    /\ submitted[PathAlpha] = 1
    /\ debounce_timers[PathBeta] # 0
    /\ timers[debounce_timers[PathBeta]].st = "waiting"

\* the Timers for path p that are started, not cancelled and not yet fired
PendingTimers(p) == {t \in TimerIds : timers[t].path = p /\ timers[t].st = "waiting"}

\* each path has at most one pending Timer
AtMostOnePending == \A p \in AcceptedPaths : Cardinality(PendingTimers(p)) <= 1

\* a pending Timer is the one _debounce_timers holds for its path
PendingIsRecorded ==
    \A p \in AcceptedPaths : \A t \in PendingTimers(p) : debounce_timers[p] = t

\* a path none of whose Timers is left has no key in _debounce_timers
FiredLeavesNoEntry ==
    \A p \in AcceptedPaths : Quiescent(p) => debounce_timers[p] = 0

\* C31: in every reachable state each path has at most one Timer that is
\* started, not cancelled and not yet fired, that Timer is the one recorded
\* for the path in _debounce_timers, and once a Timer has fired with no
\* newer notification accepted the path has no key in _debounce_timers.
C31_OnePendingTimerPerPath ==
    AtMostOnePending /\ PendingIsRecorded /\ FiredLeavesNoEntry

\* C32: whenever the callback is submitted for a path, at least D has passed
\* since the most recent accepted notification for that path.
C32_DeliverOnSettle ==
    [][\A p \in AcceptedPaths :
          submitted'[p] > submitted[p] => since_accept[p] >= DebounceTicks]_vars

\* C34: an accepted notification for path p neither cancels, restarts nor
\* delays the pending Timer of another path q, and q's callback is still
\* submitted exactly once after q settles, whatever happens on p.
C34_PathsIndependent ==
    /\ [](\A q \in AcceptedPaths :
            (accepted[q] = 1 /\ ~ever_stopped)
                => /\ submitted[q] <= 1
                   /\ Quiescent(q) => submitted[q] = 1)
    /\ [][\A p \in AcceptedPaths :
            HandleEvent(p, FALSE)
                => \A q \in AcceptedPaths \ {p} :
                      /\ debounce_timers'[q] = debounce_timers[q]
                      /\ \A t \in TimerIds :
                            timers[t].path = q => timers'[t] = timers[t]]_vars

\* alpha's one notification was delivered exactly D after it was accepted,
\* although a notification for beta was accepted while alpha's Timer waited
C34_Witness ==
    /\ accepted[PathAlpha] = 1 /\ ~ever_stopped
    /\ Quiescent(PathAlpha) /\ submitted[PathAlpha] = 1
    /\ since_accept[PathAlpha] = DebounceTicks
    /\ accepted[PathBeta] >= 1
    /\ since_accept[PathBeta] >= 0 /\ since_accept[PathBeta] < DebounceTicks

\* C4: once stop() has returned the pending-timer map is empty, and a callback
\* is submitted afterwards only by a Timer that was already firing when
\* stop() cancelled the timers.
C4_StopCancelsEveryTimer ==
    /\ [](StopReturned => \A p \in AcceptedPaths : debounce_timers[p] = 0)
    /\ [][ StopReturned =>
             \A p \in AcceptedPaths :
                submitted'[p] # submitted[p] =>
                    \E t \in inflight_at_stop :
                        /\ timers[t].path = p
                        /\ timers[t].st = "trigger"
                        /\ timers'[t].st = "dead" ]_vars

\* C5, as claimed: is_watching() is false for a new watcher, true after
\* start() returns, false after stop() returns.
C5_Lifecycle ==
    /\ last_call.op = "new" => ~is_watching
    /\ (last_call.op = "start" /\ last_call.returned) => is_watching
    /\ StopReturned => ~is_watching

\* C5, amended: after start() returns, is_watching() is true exactly when the
\* watcher was already running or skills_dir exists; a new watcher and one
\* whose stop() has returned report false.
C5_LifecycleAmended ==
    /\ last_call.op = "new" => ~is_watching
    /\ (last_call.op = "start" /\ last_call.returned)
            => (is_watching <=> (last_call.was_watching \/ skills_dir_exists))
    /\ StopReturned => ~is_watching

C5_Witness ==
    /\ StopReturned /\ last_call.was_watching
    /\ n_observers >= 1 /\ ~is_watching

\* C6: start() on a running watcher creates no second observer and changes
\* neither the state nor the timers; stop() on a stopped watcher leaves it
\* stopped and changes nothing either.
C6_StartStopIdempotent ==
    [][ n_calls' # n_calls =>
          /\ (last_call'.op = "start" /\ is_watching)
                => UNCHANGED <<is_watching, observer, monitor, stop_pc, n_observers,
                               debounce_timers, timers, next_timer>>
          /\ (last_call'.op = "stop" /\ ~is_watching)
                => /\ last_call'.returned
                   /\ UNCHANGED <<is_watching, observer, monitor, stop_pc,
                                  n_observers, debounce_timers, timers, next_timer>>
      ]_vars

C6_Witness ==
    /\ last_call = [op |-> "start", was_watching |-> TRUE, returned |-> TRUE]
    /\ n_observers = 1

\* C7: stop() returns, the observer thread ended or not, with is_watching()
\* false and no Timer left that could still fire later.
C7_StopReturnsClean ==
    (StopReturned /\ last_call.was_watching)
        => /\ ~is_watching
           /\ \A t \in TimerIds : timers[t].st # "waiting"

\* the termination half of C7: a stop() that began returns (SpecWatcherFair)
StopTerminates == (stop_pc # "idle") ~> (stop_pc = "idle" /\ StopReturned)

(***************************************************************************)
(* The skills tree, the parser and the scanner as the server uses them.    *)
(***************************************************************************)
\* the skill folders of the tree, and sorted(self.skills_dir.iterdir())
Folders == {Alpha, Beta}
SortedFolders == <<Alpha, Beta>>

SkillNames == {"s1", "s2"}

\* what a folder's SKILL.md holds: no file, a file the parser rejects, or a
\* valid file (frontmatter with name and description, a body) of that name
Absent == [file |-> "absent"]
Malformed == [file |-> "malformed"]
FileContents ==
    {Absent, Malformed} \cup [name : SkillNames]

\* Python's None, where a record is expected
None == [none |-> TRUE]

\* MarkdownSkillParser.parse(<folder>/SKILL.md): None unless the file can be
\* read, has frontmatter with name and description, and validates
Parse(t, folder) ==
    IF t[folder] \in {Absent, Malformed} THEN None
    ELSE [name |-> t[folder].name, folder_path |-> folder]

\* Skill.validate_skill() on a record made earlier: its fields are set, so it
\* fails exactly when its SKILL.md is no longer there
ValidateSkill(t, skill) == t[skill.folder_path] # Absent

\* ---- storage/repository.py: the dict, in insertion order -----------------
HasName(d, name) == \E i \in 1..Len(d) : d[i].name = name

\* an insert that never looks for the key
AddAppending(d, skill) == Append(d, skill)

\* self._skills[skill.name] = skill: an existing key keeps its position
Add(d, skill) ==
    IF HasName(d, skill.name)
    THEN [i \in 1..Len(d) |-> IF d[i].name = skill.name THEN skill ELSE d[i]]
    ELSE Append(d, skill)

RECURSIVE RemoveFrom(_, _, _)
RemoveFrom(d, i, name) ==
    IF i > Len(d) THEN <<>>
    ELSE IF d[i].name = name THEN RemoveFrom(d, i + 1, name)
    ELSE <<d[i]>> \o RemoveFrom(d, i + 1, name)

\* remove() that also drops what was inserted after the entry
RemoveTruncating(d, name) ==
    IF HasName(d, name)
    THEN SubSeq(d, 1, (CHOOSE i \in 1..Len(d) : d[i].name = name) - 1)
    ELSE d

\* SkillRepository.remove
Remove(d, name) == RemoveFrom(d, 1, name)

\* SkillRepository.get
Get(d, name) ==
    IF HasName(d, name)
    THEN d[CHOOSE i \in 1..Len(d) : d[i].name = name]
    ELSE None

\* SkillRepository.get_by_folder: the first record, in dict order, of the folder
GetByFolder(d, folder) ==
    IF \E i \in 1..Len(d) : d[i].folder_path = folder
    THEN d[CHOOSE i \in 1..Len(d) :
               /\ d[i].folder_path = folder
               /\ \A j \in 1..(i - 1) : d[j].folder_path # folder]
    ELSE None

\* self._skills.values(), as a set
Values(d) == {d[i] : i \in 1..Len(d)}

\* ---- scanner.py ----------------------------------------------------------
RECURSIVE ScanFrom(_, _, _)
ScanFrom(t, i, found) ==
    IF i > Len(SortedFolders) THEN found
    ELSE LET skill == Parse(t, SortedFolders[i])
         IN  IF skill = None
             THEN ScanFrom(t, i + 1, found)
             ELSE ScanFrom(t, i + 1, Add(found, skill))

\* SkillScanner.scan: the folders in sorted order, a later folder's record
\* replacing an earlier one of the same name
Scan(t) == ScanFrom(t, 1, <<>>)

(***************************************************************************)
(* server.py.  Everything that touches the repository runs on the event    *)
(* loop, one callback at a time; a coroutine gives the loop away only at   *)
(* an await.  scan() runs in the executor thread, the debounce timers in   *)
(* theirs.  One reload_skills() call at a time is modelled.                *)
(***************************************************************************)
\* reload_skills has no await between clear() and its return
LoopFreeYielding == TRUE

LoopFree == reload_pc # "adding"

\* the tree is edited while the watcher runs: the SKILL.md of `folder` is
\* written, replaced or deleted, and the watcher (re)starts its timer
FsWrite(folder, content) ==
    /\ server_pc = "serving"
    /\ content # tree[folder]
    /\ tree' = [tree EXCEPT ![folder] = content]
    /\ pending' = [pending EXCEPT ![folder] = TRUE]
    /\ UNCHANGED <<skills, server_pc, reload_pc, scan_idx, scanned, add_idx, loaded_count,
                   failed_count, loop_queue, read_during>>
    /\ UNCHANGED rejected
    /\ UNCHANGED not_svars

\* a timer thread that runs the callback's body itself instead of
\* submitting it to the loop
TimerFireDirect(folder) ==
    /\ pending[folder]
    /\ Len(loop_queue) < MaxQueue
    /\ pending' = [pending EXCEPT ![folder] = FALSE]
    /\ skills' = IF Parse(tree, folder) # None
                 THEN Add(skills, Parse(tree, folder))
                 ELSE IF \E i \in 1..Len(skills) : skills[i].folder_path = folder
                 THEN <<>>
                 ELSE skills
    /\ UNCHANGED <<tree, loop_queue, server_pc, reload_pc, scan_idx, scanned, add_idx,
                   loaded_count, failed_count, read_during>>
    /\ UNCHANGED rejected
    /\ UNCHANGED not_svars

\* the debounce timer of `folder` fires: run_coroutine_threadsafe(callback(path))
TimerFire(folder) ==
    /\ pending[folder]
    /\ Len(loop_queue) < MaxQueue
    /\ pending' = [pending EXCEPT ![folder] = FALSE]
    /\ loop_queue' = Append(loop_queue, folder)
    /\ UNCHANGED <<tree, skills, server_pc, reload_pc, scan_idx, scanned, add_idx,
                   loaded_count, failed_count, read_during>>
    /\ UNCHANGED rejected
    /\ UNCHANGED not_svars

\* an exception, where a value is expected
Raise == [raise |-> TRUE]

\* the body of _on_skill_change without its try/except
OnSkillChangeUnguarded(d, folder, parsed, add_raises) ==
    LET existing_skill == GetByFolder(d, folder)
    IN  IF parsed = Raise THEN [skills |-> d, escaped |-> TRUE]
        ELSE IF parsed # None
        THEN IF add_raises THEN [skills |-> d, escaped |-> TRUE]
             ELSE [skills |-> Add(d, parsed), escaped |-> FALSE]
        ELSE IF existing_skill # None
        THEN [skills |-> Remove(d, existing_skill.name), escaped |-> FALSE]
        ELSE [skills |-> d, escaped |-> FALSE]

\* a handler that empties the catalog when the file no longer parses
OnSkillChangeClearing(d, folder, parsed, add_raises) ==
    LET existing_skill == GetByFolder(d, folder)
    IN  IF parsed = Raise THEN [skills |-> d, escaped |-> FALSE]
        ELSE IF parsed # None
        THEN IF add_raises THEN [skills |-> d, escaped |-> FALSE]
             ELSE [skills |-> Add(d, parsed), escaped |-> FALSE]
        ELSE IF existing_skill # None
        THEN [skills |-> <<>>, escaped |-> FALSE]
        ELSE [skills |-> d, escaped |-> FALSE]

\* the body of _on_skill_change on the catalog d, for what parse() gave
\* (a record, None, an exception) and for whether add() raises: the new
\* catalog, and whether an exception leaves the handler
OnSkillChangeBody(d, folder, parsed, add_raises) ==
    LET existing_skill == GetByFolder(d, folder)
    IN  IF parsed = Raise THEN [skills |-> d, escaped |-> FALSE]
        ELSE IF parsed # None
        THEN IF add_raises THEN [skills |-> d, escaped |-> FALSE]
             ELSE [skills |-> Add(d, parsed), escaped |-> FALSE]
        ELSE IF existing_skill # None
        THEN [skills |-> Remove(d, existing_skill.name), escaped |-> FALSE]
        ELSE [skills |-> d, escaped |-> FALSE]

\* SkillsServer._on_skill_change(path), the incremental reload; the file
\* holds still between parse() and add(), so add() accepts what parse() gave
OnSkillChange ==
    /\ LoopFree
    /\ loop_queue # <<>>
    /\ LET folder == Head(loop_queue)
           skill == Parse(tree, folder)
       IN  skills' = OnSkillChangeBody(skills, folder, skill, FALSE).skills
    /\ loop_queue' = Tail(loop_queue)
    /\ UNCHANGED <<tree, server_pc, reload_pc, scan_idx, scanned, add_idx, loaded_count,
                   failed_count, pending, read_during>>
    /\ UNCHANGED rejected
    /\ UNCHANGED not_svars

\* reload_skills() is called, by start() or by the reload_skills tool, and
\* awaits scan_async()
ReloadCall ==
    /\ reload_pc = "idle"
    /\ server_pc \in {"new", "serving"}
    /\ reload_pc' = "scanning"
    /\ scan_idx' = 1
    /\ server_pc' = IF server_pc = "new" THEN "starting" ELSE server_pc
    /\ UNCHANGED <<tree, skills, scanned, add_idx, loaded_count, failed_count,
                   pending, loop_queue, read_during>>
    /\ UNCHANGED rejected
    /\ UNCHANGED not_svars

\* the executor thread runs one round of SkillScanner.scan's loop
ScanFolder ==
    /\ reload_pc = "scanning"
    /\ scan_idx <= Len(SortedFolders)
    /\ LET skill == Parse(tree, SortedFolders[scan_idx])
       IN  scanned' = IF skill = None THEN scanned ELSE Add(scanned, skill)
    /\ scan_idx' = scan_idx + 1
    /\ UNCHANGED <<tree, skills, server_pc, reload_pc, add_idx, loaded_count,
                   failed_count, pending, loop_queue, read_during>>
    /\ UNCHANGED rejected
    /\ UNCHANGED not_svars

\* scan() returns and the future of run_in_executor is done
ScanReturn ==
    /\ reload_pc = "scanning"
    /\ scan_idx > Len(SortedFolders)
    /\ reload_pc' = "scanned"
    /\ scan_idx' = 0
    /\ UNCHANGED <<tree, skills, server_pc, scanned, add_idx, loaded_count,
                   failed_count, pending, loop_queue, read_during>>
    /\ UNCHANGED rejected
    /\ UNCHANGED not_svars

\* a reload that does not clear the repository first
ReloadClearKeeps ==
    /\ reload_pc = "scanned"
    /\ add_idx' = 1
    /\ loaded_count' = 0
    /\ failed_count' = 0
    /\ rejected' = {}
    /\ reload_pc' = "adding"
    /\ UNCHANGED <<tree, skills, server_pc, scan_idx, scanned, pending, loop_queue,
                   read_during>>
    /\ UNCHANGED not_svars

\* reload_skills resumes: self.repository.clear()
ReloadClear ==
    /\ reload_pc = "scanned"
    /\ skills' = <<>>
    /\ add_idx' = 1
    /\ loaded_count' = 0
    /\ failed_count' = 0
    /\ rejected' = {}
    /\ reload_pc' = "adding"
    /\ UNCHANGED <<tree, server_pc, scan_idx, scanned, pending, loop_queue, read_during>>
    /\ UNCHANGED not_svars

\* a loop that a rejected add() aborts
ReloadAddAborting ==
    /\ reload_pc = "adding"
    /\ add_idx <= Len(scanned)
    /\ IF ValidateSkill(tree, scanned[add_idx])
       THEN /\ skills' = Add(skills, scanned[add_idx])
            /\ loaded_count' = loaded_count + 1
            /\ add_idx' = add_idx + 1
            /\ UNCHANGED <<failed_count, rejected>>
       ELSE /\ failed_count' = failed_count + 1
            /\ rejected' = rejected \cup {scanned[add_idx].name}
            /\ add_idx' = Len(scanned) + 1
            /\ UNCHANGED <<skills, loaded_count>>
    /\ UNCHANGED <<tree, server_pc, reload_pc, scan_idx, scanned, pending,
                   loop_queue, read_during>>
    /\ UNCHANGED not_svars

\* one round of `for name, skill in skills.items()`: add() validates, raises
\* on failure, and the loop counts
ReloadAdd ==
    /\ reload_pc = "adding"
    /\ add_idx <= Len(scanned)
    /\ IF ValidateSkill(tree, scanned[add_idx])
       THEN /\ skills' = Add(skills, scanned[add_idx])
            /\ loaded_count' = loaded_count + 1
            /\ UNCHANGED <<failed_count, rejected>>
       ELSE /\ failed_count' = failed_count + 1
            /\ rejected' = rejected \cup {scanned[add_idx].name}
            /\ UNCHANGED <<skills, loaded_count>>
    /\ add_idx' = add_idx + 1
    /\ UNCHANGED <<tree, server_pc, reload_pc, scan_idx, scanned, pending,
                   loop_queue, read_during>>
    /\ UNCHANGED not_svars

\* the dictionary reload_skills builds and returns when its loop is over
Stats ==
    [loaded |-> loaded_count, failed |-> failed_count, total |-> Len(skills)]

\* the loop is over: reload_skills returns Stats and its locals are gone
ReloadReturn ==
    /\ reload_pc = "adding"
    /\ add_idx > Len(scanned)
    /\ reload_pc' = "idle"
    /\ scanned' = <<>>
    /\ add_idx' = 0
    /\ loaded_count' = 0
    /\ failed_count' = 0
    /\ rejected' = {}
    /\ UNCHANGED <<tree, skills, server_pc, scan_idx, pending, loop_queue,
                   read_during>>
    /\ UNCHANGED not_svars

\* start() after its initial reload: the watcher is created and started
StartWatcher ==
    /\ server_pc = "starting"
    /\ reload_pc = "idle"
    /\ server_pc' = "serving"
    /\ UNCHANGED <<tree, skills, reload_pc, scan_idx, scanned, add_idx, loaded_count,
                   failed_count, pending, loop_queue, read_during>>
    /\ UNCHANGED rejected
    /\ UNCHANGED not_svars

\* an MCP handler reads the catalog: get, get_all, search, group_by_category
Read ==
    /\ server_pc = "serving"
    /\ LoopFree
    /\ read_during' = reload_pc
    /\ UNCHANGED <<tree, skills, server_pc, reload_pc, scan_idx, scanned, add_idx,
                   loaded_count, failed_count, pending, loop_queue>>
    /\ UNCHANGED rejected
    /\ UNCHANGED not_svars

(***************************************************************************)
(* Claims about the server.                                                *)
(***************************************************************************)
ServerQuiescent ==
    /\ server_pc = "serving"
    /\ reload_pc = "idle"
    /\ loop_queue = <<>>
    /\ \A f \in Folders : ~pending[f]

\* the steps the event loop runs: the coroutines reload_skills and
\* _on_skill_change, start(), and the MCP handlers
LoopStep ==
    \/ OnSkillChange
    \/ ReloadCall
    \/ ReloadClear
    \/ ReloadAdd
    \/ ReloadReturn
    \/ StartWatcher
    \/ Read

\* C33: every mutation of the catalog (add, remove, clear) is a step of the
\* event loop; a timer thread only submits the callback to the loop, and the
\* executor thread of scan_async only builds its own snapshot; neither
\* touches the catalog.
C33_MutationsOnLoop ==
    [][/\ skills' # skills => LoopStep
       /\ \A f \in Folders :
             TimerFire(f) => skills' = skills /\ loop_queue' = Append(loop_queue, f)
       /\ ScanFolder => skills' = skills /\ loop_queue' = loop_queue]_vars

\* a timer thread has submitted a callback and the executor thread has put
\* a record in its snapshot, while the catalog waits for the loop
C33_Witness ==
    /\ server_pc = "serving"
    /\ reload_pc = "scanning"
    /\ scanned # <<>>
    /\ loop_queue # <<>>
    /\ skills # <<>>
    /\ Values(scanned) # Values(skills)

\* C36: after any sequence of full and incremental reloads no two records
\* of the catalog have the same source folder; a folder whose definition
\* changed its name has no record under the old name after the incremental
\* reload.
C36_SourceDisjoint ==
    \A i, j \in 1..Len(skills) :
        skills[i].folder_path = skills[j].folder_path => i = j

\* C1: whenever the watcher runs and nothing is pending (no timer, no
\* submitted callback, no reload under way) the catalog equals what a fresh
\* scan of the tree returns.
C1_Convergence == ServerQuiescent => Values(skills) = Values(Scan(tree))

\* a step of _on_skill_change: it alone takes a coroutine off the queue
ChangeStep == Len(loop_queue') < Len(loop_queue)

\* C8: no incremental reload and no full reload starts while a full reload
\* is in progress.
C8_ReloadsSerialized ==
    [][/\ ChangeStep => reload_pc = "idle"
       /\ (reload_pc' = "scanning" /\ reload_pc # "scanning") => reload_pc = "idle"]_vars

\* C9: nothing reads or incrementally updates the catalog between a full
\* reload's clear() and the end of its repopulation.
C9_RepopulationAtomic ==
    /\ [](read_during # "adding")
    /\ [][ChangeStep => reload_pc # "adding"]_vars

\* a reload is in the middle of its repopulation while a submitted
\* _on_skill_change waits, after a reader ran during the same reload
C9_Witness ==
    /\ reload_pc = "adding"
    /\ add_idx = 2
    /\ Len(scanned) = 2
    /\ loop_queue # <<>>
    /\ read_during = "scanned"

\* C10: when _on_skill_change(path) has run: if the file parsed to r then
\* get(r.name) = r, otherwise no record of the repository comes from the
\* file's folder.
C10_HandleChangePost ==
    [][ChangeStep =>
         LET folder == Head(loop_queue)
             r == Parse(tree, folder)
         IN  IF r # None
             THEN Get(skills', r.name) = r
             ELSE \A x \in Values(skills') : x.folder_path # folder]_vars

\* reload_skills has finished its loop and is about to return
ReloadAtReturn == reload_pc = "adding" /\ add_idx > Len(scanned)

NamesOf(d) == {d[i].name : i \in 1..Len(d)}

\* C11: when a full reload completes, the names of the catalog are exactly
\* the names of the snapshot it consumed minus those add() rejected; what
\* the catalog held before and the snapshot lacks is gone.
C11_ReloadReplacesWholesale ==
    ReloadAtReturn => NamesOf(skills) = NamesOf(scanned) \ rejected

\* a reload completes having loaded one record of its snapshot and rejected
\* the other
C11_Witness ==
    /\ ReloadAtReturn
    /\ Len(scanned) = 2
    /\ rejected # {}
    /\ skills # <<>>
    /\ server_pc = "serving"

\* C12: reload_skills returns loaded + failed = size of the snapshot, total =
\* count() of the catalog and loaded = total; a rejected add() is counted as
\* failed and the loop goes on with the next record.
C12_ReloadStats ==
    /\ reload_pc = "adding"
          => /\ loaded_count + failed_count = add_idx - 1
             /\ failed_count = Cardinality(rejected)
    /\ ReloadAtReturn
          => /\ Stats.loaded + Stats.failed = Len(scanned)
             /\ Stats.total = Len(skills)
             /\ Stats.loaded = Stats.total

\* the first record of the snapshot was rejected, the second one loaded
C12_Witness ==
    /\ ReloadAtReturn
    /\ Len(scanned) = 2
    /\ rejected = {scanned[1].name}
    /\ Stats = [loaded |-> 1, failed |-> 1, total |-> 1]

(***************************************************************************)
(* scanner.py: SkillScanner.scan over a tree that holds still.  The root   *)
(* may be missing, a file, or a directory of entries: files and folders,   *)
(* a folder with its own SKILL.md and the SKILL.md of one subfolder.       *)
(***************************************************************************)
\* the characters of the model's names, in code point order
CharOrder ==
    << ".", "A", "D", "E", "I", "K", "L", "M", "R", "S", "_",
       "a", "b", "c", "d", "e", "g", "h", "i", "l", "m", "n", "p", "r", "s",
       "t", "v", "y" >>

Ord(c) == CHOOSE i \in 1..Len(CharOrder) : CharOrder[i] = c

\* str.__lt__ on two names
RECURSIVE NameLess(_, _)
NameLess(a, b) ==
    IF a = <<>> THEN b # <<>>
    ELSE IF b = <<>> THEN FALSE
    ELSE IF a[1] = b[1] THEN NameLess(Tail(a), Tail(b))
    ELSE Ord(a[1]) < Ord(b[1])

\* the names in descending order
RECURSIVE SortedNamesDescending(_)
SortedNamesDescending(S) ==
    IF S = {} THEN <<>>
    ELSE LET greatest == CHOOSE x \in S : \A y \in S \ {x} : NameLess(y, x)
         IN  <<greatest>> \o SortedNamesDescending(S \ {greatest})

\* sorted() on a set of names
RECURSIVE SortedNames(_)
SortedNames(S) ==
    IF S = {} THEN <<>>
    ELSE LET least == CHOOSE x \in S : \A y \in S \ {x} : NameLess(x, y)
         IN  <<least>> \o SortedNames(S \ {least})

NoEntry == [kind |-> "none"]
RootFile == [kind |-> "file"]

\* the folders a tree may hold under the names that can carry a skill
SkillDirs ==
    {NoEntry} \cup [kind : {"dir"}, sentinel : FileContents,
                    nested : {Absent, [name |-> "s2"]}]

\* a folder holding a valid SKILL.md, under a name that cannot carry a skill
OtherDirs ==
    {NoEntry, [kind |-> "dir", sentinel |-> [name |-> "s1"], nested |-> Absent]}

ScanNames == {Alpha, Beta, DotHidden, Private, Venv, SKILL_MD, README_MD}

TreeEntries ==
    { [n \in ScanNames |->
          CASE n = Alpha -> a
            [] n = Beta -> b
            [] n = DotHidden -> h
            [] n = Private -> p
            [] n = Venv -> v
            [] n = SKILL_MD -> s
            [] n = README_MD -> r] :
      a \in SkillDirs, b \in SkillDirs, h \in OtherDirs, p \in OtherDirs,
      v \in OtherDirs, s \in {NoEntry, RootFile}, r \in {NoEntry, RootFile} }

Roots ==
    {[kind |-> "missing"], [kind |-> "file"]}
        \cup {[kind |-> "dir", entries |-> e] : e \in TreeEntries}

\* self.skills_dir.iterdir()
Listing(root) == {n \in ScanNames : root.entries[n] # NoEntry}

\* a search that goes one level further down when <folder>/SKILL.md is not
\* there
SentinelsOrNested(root) ==
    [n \in ScanNames |->
        IF root.entries[n].kind # "dir" THEN Absent
        ELSE IF root.entries[n].sentinel # Absent THEN root.entries[n].sentinel
        ELSE root.entries[n].nested]

\* <folder>/SKILL.md as the parser finds it, for every name of the root
Sentinels(root) ==
    [n \in ScanNames |->
        IF root.entries[n].kind = "dir" THEN root.entries[n].sentinel ELSE Absent]

\* a check of the folder that lets the names starting with '_' through
IsValidSkillFolderUnderscore(root, n) ==
    IF root.entries[n].kind # "dir" THEN FALSE
    ELSE IF StartsWith(n, ".") THEN FALSE
    ELSE IF n \in IGNORED_FOLDERS THEN FALSE
    ELSE TRUE

\* SkillScanner._is_valid_skill_folder
IsValidSkillFolder(root, n) ==
    IF root.entries[n].kind # "dir" THEN FALSE
    ELSE IF StartsWith(n, ".") THEN FALSE
    ELSE IF StartsWith(n, "_") THEN FALSE
    ELSE IF n \in IGNORED_FOLDERS THEN FALSE
    ELSE TRUE

\* SkillScanner._find_skill_file: None when <folder>/SKILL.md is not a file
FindSkillFile(root, n) ==
    IF Sentinels(root)[n] = Absent THEN None ELSE <<n, SKILL_MD>>

Tally(acc, what) ==
    [acc EXCEPT !.stats = [@ EXCEPT ![what] = @ + 1]]

\* a round that counts nothing for a file of the root
ScanOneSilentRoot(root, acc, n) ==
    IF root.entries[n].kind = "file" THEN acc
    ELSE IF root.entries[n].kind # "dir" THEN acc
    ELSE IF ~IsValidSkillFolder(root, n) THEN Tally(acc, "skipped")
    ELSE IF FindSkillFile(root, n) = None THEN Tally(acc, "skipped")
    ELSE LET skill == Parse(Sentinels(root), n)
         IN  IF skill = None THEN Tally(acc, "failed")
             ELSE Tally([acc EXCEPT !.skills = Add(@, skill)], "loaded")

\* one round of scan()'s loop, on the item named n; parse() accepts the
\* location of every file the scanner hands it
ScanOne(root, acc, n) ==
    IF root.entries[n].kind = "file"
    THEN IF n = SKILL_MD THEN Tally(acc, "skipped") ELSE acc
    ELSE IF root.entries[n].kind # "dir" THEN acc
    ELSE IF ~IsValidSkillFolder(root, n) THEN Tally(acc, "skipped")
    ELSE IF FindSkillFile(root, n) = None THEN Tally(acc, "skipped")
    ELSE LET skill == Parse(Sentinels(root), n)
         IN  IF skill = None THEN Tally(acc, "failed")
             ELSE Tally([acc EXCEPT !.skills = Add(@, skill)], "loaded")

NoSkills == [skills |-> <<>>, stats |-> [loaded |-> 0, skipped |-> 0, failed |-> 0]]

RECURSIVE ScanAll(_, _, _, _)
ScanAll(root, items, i, acc) ==
    IF i > Len(items) THEN acc
    ELSE ScanAll(root, items, i + 1, ScanOne(root, acc, items[i]))

\* SkillScanner.scan as a function of the tree: the result dict and the tallies
ScanTree(root) ==
    IF root.kind # "dir" THEN NoSkills
    ELSE ScanAll(root, SortedNames(Listing(root)), 1, NoSkills)

\* scan() up to its loop: the checks of the root, the sorted listing
ScanBegin ==
    /\ scan_pc = "start"
    /\ IF fs_root.kind # "dir"
       THEN /\ scan_pc' = "done"
            /\ UNCHANGED scan_items
       ELSE /\ scan_pc' = "loop"
            /\ scan_items' = SortedNames(Listing(fs_root))
    /\ scan_pos' = 1
    /\ scan_skills' = <<>>
    /\ scan_stats' = NoSkills.stats
    /\ UNCHANGED fs_root
    /\ UNCHANGED not_cvars

\* a scan that a parse failure ends
ScanRoundAborting ==
    /\ scan_pc = "loop"
    /\ scan_pos <= Len(scan_items)
    /\ LET acc == ScanOne(fs_root, [skills |-> scan_skills, stats |-> scan_stats],
                          scan_items[scan_pos])
       IN  /\ scan_skills' = acc.skills
           /\ scan_stats' = acc.stats
           /\ scan_pos' = IF acc.stats.failed > scan_stats.failed
                          THEN Len(scan_items) + 1
                          ELSE scan_pos + 1
    /\ UNCHANGED <<fs_root, scan_pc, scan_items>>
    /\ UNCHANGED not_cvars

\* one round of `for item in items`
ScanRound ==
    /\ scan_pc = "loop"
    /\ scan_pos <= Len(scan_items)
    /\ LET acc == ScanOne(fs_root, [skills |-> scan_skills, stats |-> scan_stats],
                          scan_items[scan_pos])
       IN  /\ scan_skills' = acc.skills
           /\ scan_stats' = acc.stats
    /\ scan_pos' = scan_pos + 1
    /\ UNCHANGED <<fs_root, scan_pc, scan_items>>
    /\ UNCHANGED not_cvars

\* the loop is over: scan() logs its summary and returns `skills`
ScanEnd ==
    /\ scan_pc = "loop"
    /\ scan_pos > Len(scan_items)
    /\ scan_pc' = "done"
    /\ UNCHANGED <<fs_root, scan_items, scan_pos, scan_skills, scan_stats>>
    /\ UNCHANGED not_cvars

(***************************************************************************)
(* Claims about the scanner, checked under SpecScanner.                    *)
(***************************************************************************)
\* the tree without the entry named n
Without(root, n) == [root EXCEPT !.entries = [@ EXCEPT ![n] = NoEntry]]

\* an eligible folder whose SKILL.md is there and fails to parse
FailsToParse(root, n) ==
    /\ IsValidSkillFolder(root, n)
    /\ root.entries[n].sentinel = Malformed

\* C13: a folder whose SKILL.md fails to parse adds one to `failed` and
\* nothing else: the result and the other tallies are those of the same tree
\* without that folder.
C13_ScannerFaultIsolation ==
    (scan_pc = "done" /\ fs_root.kind = "dir")
        => \A n \in ScanNames :
              FailsToParse(fs_root, n)
                  => LET without == ScanTree(Without(fs_root, n))
                     IN  /\ scan_skills = without.skills
                         /\ scan_stats = [without.stats EXCEPT !.failed = @ + 1]

\* a scan is over that met a failing folder before a folder that parses
C13_Witness ==
    /\ scan_pc = "done"
    /\ fs_root.kind = "dir"
    /\ FailsToParse(fs_root, Alpha)
    /\ scan_skills = <<[name |-> "s1", folder_path |-> Beta]>>
    /\ scan_stats.failed = 1

\* an immediate child of the root that is a directory and whose name does
\* not start with '.' or '_' and is not in the ignored set
EligibleChild(root, n) ==
    /\ root.entries[n].kind = "dir"
    /\ ~StartsWith(n, ".")
    /\ ~StartsWith(n, "_")
    /\ n \notin IGNORED_FOLDERS

\* the eligible children whose SKILL.md is there and parses
Contributors(root) ==
    {n \in ScanNames :
        /\ EligibleChild(root, n)
        /\ root.entries[n].sentinel \notin {Absent, Malformed}}

\* the record parse() builds for the SKILL.md of a contributor
RecordOf(root, n) == [name |-> root.entries[n].sentinel.name, folder_path |-> n]

ScanDone == scan_pc = "done"

\* C28: scan() returns exactly the records of the eligible immediate child
\* folders of the root whose SKILL.md parses; files of the root (SKILL.md
\* included), other folders and folders without SKILL.md contribute
\* nothing; a root that is missing or not a directory gives the empty result.
C28_ScanResult ==
    ScanDone
    => IF fs_root.kind # "dir" THEN scan_skills = <<>>
       ELSE Values(scan_skills) = {RecordOf(fs_root, n) : n \in Contributors(fs_root)}

\* C28, amended: the same, one record per name: of the contributors that
\* declare one name, the last in the sorted order of the folders gives the
\* record.
C28_ScanResultPerName ==
    ScanDone
    => IF fs_root.kind # "dir" THEN scan_skills = <<>>
       ELSE /\ Values(scan_skills)
                  = {RecordOf(fs_root, n) : n \in
                        {c \in Contributors(fs_root) :
                            \A o \in Contributors(fs_root) :
                                RecordOf(fs_root, o).name = RecordOf(fs_root, c).name
                                    => o = c \/ NameLess(o, c)}}
            /\ \A i, j \in 1..Len(scan_skills) :
                   scan_skills[i].name = scan_skills[j].name => i = j

\* alpha and beta gave their records; SKILL.md in the root, _private and
\* venv, each with a SKILL.md that parses, gave none
C28_Witness ==
    /\ ScanDone
    /\ fs_root.kind = "dir"
    /\ fs_root.entries[SKILL_MD] = RootFile
    /\ fs_root.entries[Private] # NoEntry
    /\ fs_root.entries[Venv] # NoEntry
    /\ scan_skills = <<[name |-> "s1", folder_path |-> Alpha],
                       [name |-> "s2", folder_path |-> Beta]>>

\* C29: every immediate child directory of the root adds one to exactly one
\* of loaded (its SKILL.md parsed), failed (SKILL.md there, parse() None)
\* and skipped (not eligible, or eligible without SKILL.md); a file SKILL.md
\* in the root adds one to skipped; any other file of the root adds nothing.
C29_ScanTallies ==
    (ScanDone /\ fs_root.kind = "dir")
    => LET dirs == {n \in ScanNames : fs_root.entries[n].kind = "dir"}
           eligible == {n \in dirs : EligibleChild(fs_root, n)}
       IN  /\ scan_stats.loaded = Cardinality(Contributors(fs_root))
           /\ scan_stats.failed
                  = Cardinality({n \in eligible : fs_root.entries[n].sentinel = Malformed})
           /\ scan_stats.skipped
                  = Cardinality(dirs \ eligible)
                    + Cardinality({n \in eligible : fs_root.entries[n].sentinel = Absent})
                    + (IF fs_root.entries[SKILL_MD] = RootFile THEN 1 ELSE 0)
           /\ scan_stats.loaded + scan_stats.failed + scan_stats.skipped
                  = Cardinality(dirs)
                    + (IF fs_root.entries[SKILL_MD] = RootFile THEN 1 ELSE 0)

\* one folder loaded, one failed, three skipped with SKILL.md of the root,
\* README.md of the root counted nowhere
C29_Witness ==
    /\ ScanDone
    /\ fs_root.kind = "dir"
    /\ fs_root.entries[README_MD] = RootFile
    /\ fs_root.entries[SKILL_MD] = RootFile
    /\ scan_stats = [loaded |-> 1, skipped |-> 3, failed |-> 1]

\* the tree with nothing two levels below the root
WithoutNested(root) ==
    [root EXCEPT !.entries =
        [n \in ScanNames |->
            IF root.entries[n].kind = "dir"
            THEN [root.entries[n] EXCEPT !.nested = Absent]
            ELSE root.entries[n]]]

\* C30: a SKILL.md two levels below the root never gives a record, whether
\* or not the folder above it holds a SKILL.md of its own: the scan returns
\* what it returns for the tree without the nested files.
C30_DepthOne ==
    (ScanDone /\ fs_root.kind = "dir")
    => /\ scan_skills = ScanTree(WithoutNested(fs_root)).skills
       /\ scan_stats = ScanTree(WithoutNested(fs_root)).stats
       /\ \A i \in 1..Len(scan_skills) :
              scan_skills[i].name
                  = fs_root.entries[scan_skills[i].folder_path].sentinel.name

\* alpha has no SKILL.md but a nested one, beta has both: s2, which only
\* the nested files declare, is not in the result
C30_Witness ==
    /\ ScanDone
    /\ fs_root.kind = "dir"
    /\ fs_root.entries[Alpha] # NoEntry
    /\ fs_root.entries[Alpha].sentinel = Absent
    /\ fs_root.entries[Alpha].nested # Absent
    /\ fs_root.entries[Beta] # NoEntry
    /\ fs_root.entries[Beta].nested # Absent
    /\ scan_skills = <<[name |-> "s1", folder_path |-> Beta]>>

\* the contributors whose SKILL.md declares `name`
Declaring(root, name) ==
    {c \in Contributors(root) : RecordOf(root, c).name = name}

\* C35: scan() visits the folders in ascending lexicographic order, and when
\* two or more eligible folders hold definitions of one name its result
\* maps the name to the record of the lexicographically last of them.
C35_LastFolderWins ==
    /\ scan_pc \in {"loop", "done"}
       => \A i, j \in 1..Len(scan_items) :
             i < j => NameLess(scan_items[i], scan_items[j])
    /\ (ScanDone /\ fs_root.kind = "dir")
       => \A name \in SkillNames :
             Cardinality(Declaring(fs_root, name)) >= 2
                => \E last \in Declaring(fs_root, name) :
                      /\ \A o \in Declaring(fs_root, name) \ {last} : NameLess(o, last)
                      /\ \E i \in 1..Len(scan_skills) :
                            scan_skills[i] = RecordOf(fs_root, last)
                      /\ \A i \in 1..Len(scan_skills) :
                            scan_skills[i].name = name
                               => scan_skills[i] = RecordOf(fs_root, last)

\* alpha and beta both declare s2; the result holds beta's record alone
C35_Witness ==
    /\ ScanDone
    /\ fs_root.kind = "dir"
    /\ Declaring(fs_root, "s2") = {Alpha, Beta}
    /\ Len(scan_items) >= 4
    /\ scan_skills = <<[name |-> "s2", folder_path |-> Beta]>>

\* C39: for every tree, the loaded tally of scan() equals the number of
\* records in the result it returns.
C39_LoadedIsResultSize ==
    ScanDone => scan_stats.loaded = Len(scan_skills)

InitScannerVars ==
    /\ fs_root \in Roots
    /\ scan_pc = "start"
    /\ scan_items = <<>>
    /\ scan_pos = 0
    /\ scan_skills = <<>>
    /\ scan_stats = NoSkills.stats

\* no scan() is made on its own
ScannerParked ==
    /\ InitScannerVars
    /\ fs_root = [kind |-> "missing"]

(***************************************************************************)
(* One call of _on_skill_change, on any catalog, with a parser and an      *)
(* add() that may do anything: return, or raise.                           *)
(***************************************************************************)
\* the catalogs of up to two records
Catalogs ==
    LET Records == [name : SkillNames, folder_path : Folders]
    IN  {<<>>} \cup {<<r>> : r \in Records}
               \cup {pair \in Records \X Records : pair[1].name # pair[2].name}

\* what parse(<folder>/SKILL.md) may do
ParserBehaviours(folder) ==
    {None, Raise} \cup [name : SkillNames, folder_path : {folder}]

HandleChangeCall ==
    /\ hc.pc = "called"
    /\ LET out == OnSkillChangeBody(hc.skills, hc.folder, hc.parser, hc.add_raises)
       IN  hc' = [hc EXCEPT !.pc = "returned", !.skills = out.skills,
                            !.escaped = out.escaped]
    /\ UNCHANGED not_hvars

\* C14: _on_skill_change never lets an exception out, whatever parse() and
\* add() do; when parse() raises the catalog is left as it was.
C14_HandlerNeverRaises ==
    hc.pc = "returned"
        => /\ ~hc.escaped
           /\ hc.parser = Raise => hc.skills = hc.before

\* the handler has returned from a parser that raised, on a catalog that
\* holds a record of the file's folder
C14_Witness ==
    /\ hc.pc = "returned"
    /\ hc.parser = Raise
    /\ GetByFolder(hc.before, hc.folder) # None

\* the names under which the catalogs a and b differ
ChangedNames(a, b) == {n \in SkillNames : Get(a, n) # Get(b, n)}

\* C37: _on_skill_change(path) for a file of folder F changes at most one
\* entry of the catalog: the entry named as the parsed record when the file
\* parsed, an entry whose source folder is F when it did not; every entry
\* with another name and another source folder is left as it was.
C37_HandleChangeFrame ==
    hc.pc = "returned"
        => /\ Cardinality(ChangedNames(hc.before, hc.skills)) <= 1
           /\ \A n \in ChangedNames(hc.before, hc.skills) :
                 IF hc.parser \notin {None, Raise}
                 THEN n = hc.parser.name
                 ELSE /\ Get(hc.before, n) # None
                      /\ Get(hc.before, n).folder_path = hc.folder
           /\ \A i \in 1..Len(hc.before) :
                 (/\ hc.before[i].folder_path # hc.folder
                  /\ hc.parser \in {None, Raise} \/ hc.before[i].name # hc.parser.name)
                    => Get(hc.skills, hc.before[i].name) = hc.before[i]

\* alpha's file stopped parsing: alpha's record is gone, beta's is there
C37_Witness ==
    /\ hc.pc = "returned"
    /\ hc.parser = None
    /\ hc.folder = Alpha
    /\ hc.before = <<[name |-> "s1", folder_path |-> Alpha],
                     [name |-> "s2", folder_path |-> Beta]>>
    /\ hc.skills = <<[name |-> "s2", folder_path |-> Beta]>>

InitHandlerVars ==
    \E d \in Catalogs, f \in Folders, a \in BOOLEAN :
        \E p \in ParserBehaviours(f) :
            hc = [pc |-> "called", skills |-> d, before |-> d, folder |-> f,
                  parser |-> p, add_raises |-> a, escaped |-> FALSE]

\* no call of the handler on its own
HandlerParked ==
    hc = [pc |-> "none", skills |-> <<>>, before |-> <<>>, folder |-> Alpha,
          parser |-> None, add_raises |-> FALSE, escaped |-> FALSE]

(***************************************************************************)
(* parsers/base.py, parsers/markdown.py: one call of parse(path).  A file  *)
(* is missing, unreadable, or a text; a text is the sequence of its lines  *)
(* as text.split("\n") gives them, so that every line but the last is      *)
(* followed by a newline.                                                  *)
(***************************************************************************)
Delim == "---"

\* the lines a metadata block is made of
MetaLines ==
    { "name: s1", "name: ''", "name:", "description: d1", "description: ''",
      "description:", "complexity: expert", "has_examples: true", "- x", "{", "text", "" }

\* what a `key: value` line decodes to; YAML's null is "<null>"
KeyOf(line) ==
    CASE line \in {"name: s1", "name: ''", "name:"} -> "name"
      [] line \in {"description: d1", "description: ''", "description:"} -> "description"
      [] line = "complexity: expert" -> "complexity"
      [] line = "has_examples: true" -> "has_examples"
      [] OTHER -> ""

ValueOf(line) ==
    CASE line = "name: s1" -> "s1"
      [] line = "name: ''" -> ""
      [] line = "name:" -> "<null>"
      [] line = "description: d1" -> "d1"
      [] line = "description: ''" -> ""
      [] line = "description:" -> "<null>"
      [] line = "complexity: expert" -> "expert"
      [] line = "has_examples: true" -> "true"
      [] OTHER -> ""

IsKeyValue(line) == KeyOf(line) # ""

\* a test for None only
FalsyOnlyNone(v) == v = "<null>"

\* `not value` in Python, for the values of the model
Falsy(v) == v \in {"", "<null>"}

\* what is at the place of the file: nothing, a file that cannot be read or
\* decoded, or a text
Missing == [file |-> "missing"]
Unreadable == [file |-> "unreadable"]
TextFile(L) == [file |-> "text", lines |-> L]

\* the metadata blocks: up to two lines, or the two required keys and a
\* third line
MetaBlocks ==
    {<<>>} \cup {<<a>> : a \in MetaLines}
           \cup {<<a, b>> : a \in MetaLines, b \in MetaLines}
           \cup {<<"name: s1", "description: d1", c>> : c \in MetaLines}

\* the texts: an opening, a metadata block, a closing, a body
Texts ==
    { head \o meta \o close \o body :
        head \in {<<Delim>>, <<>>, <<Delim, "">>},
        meta \in MetaBlocks,
        close \in {<<Delim>>, <<>>},
        body \in { <<>>, <<"">>, <<"text">>, <<"text", "">>, <<"", "text", "">>,
                   <<"text", Delim, "text", "">>, <<"description: d1", "">> } }

GoodText == <<Delim, "name: s1", "description: d1", Delim, "text", "">>

\* SkillParser.validate_folder_structure; folder_kind is what is at the
\* place of the file's folder: "dir", "file" or "missing"
ValidateFolderStructure(path, folder_kind) ==
    IF path[Len(path)] # SKILL_MD THEN FALSE
    ELSE IF Len(path) = 1 THEN FALSE
    ELSE IF Len(path) # 2 THEN FALSE
    ELSE IF StartsWith(path[1], ".") THEN FALSE
    ELSE IF path[1] \in IGNORED_FOLDERS THEN FALSE
    ELSE IF folder_kind = "missing" THEN FALSE
    ELSE IF folder_kind # "dir" THEN FALSE
    ELSE TRUE

\* the blank lines from line i on that a newline follows: what \s* can take
RECURSIVE BlankRun(_, _)
BlankRun(L, i) ==
    IF i < Len(L) /\ L[i] = "" THEN 1 + BlankRun(L, i + 1) ELSE 0

\* the lines k >= j after which a delimiter line followed by a newline comes
ClosingAt(L, j) ==
    {k \in j..(Len(L) - 2) : L[k + 1] = Delim}

\* the newlines `\s*\n` takes after the opening delimiter: as many as it
\* can (greedy) among those that let the rest of the pattern match
OpeningTakes(L) ==
    {c \in 1..(1 + BlankRun(L, 2)) : ClosingAt(L, 1 + c) # {}}

Max(S) == CHOOSE x \in S : \A y \in S : y <= x
Min(S) == CHOOSE x \in S : \A y \in S : x <= y

\* a pattern whose second group starts at the closing delimiter line
MatchKeepsClosing(L) ==
    IF Len(L) < 2 THEN None
    ELSE IF L[1] # Delim THEN None
    ELSE IF OpeningTakes(L) = {} THEN None
    ELSE LET j == 1 + Max(OpeningTakes(L))
             k == Min(ClosingAt(L, j))
         IN  [yaml_content |-> SubSeq(L, j, k),
              markdown_content |-> SubSeq(L, k + 1, Len(L))]

\* FRONTMATTER_PATTERN.match(content): None, or the two groups as lines
Match(L) ==
    IF Len(L) < 2 THEN None
    ELSE IF L[1] # Delim THEN None
    ELSE IF OpeningTakes(L) = {} THEN None
    ELSE LET j == 1 + Max(OpeningTakes(L))
             k == Min(ClosingAt(L, j))
             b == k + 2 + BlankRun(L, k + 2)
         IN  [yaml_content |-> SubSeq(L, j, k),
              markdown_content |-> SubSeq(L, b, Len(L))]

\* MarkdownSkillParser.validate
Validate(L) == Match(L) # None

\* what yaml.safe_load gives: an exception, None, a mapping, something else
YamlError == [yaml |-> "error"]
YamlNone == [yaml |-> "none"]
NonMapping == [yaml |-> "not a mapping"]
Mapping(m) == [yaml |-> "mapping", value |-> m]

\* the dict of lines that are all `key: value`; a later line wins its key
MappingOf(lines) ==
    [key \in {KeyOf(lines[i]) : i \in 1..Len(lines)} |->
        ValueOf(lines[Max({i \in 1..Len(lines) : KeyOf(lines[i]) = key})])]

\* yaml.safe_load on the lines of the block
SafeLoad(lines) ==
    LET body == SelectSeq(IF lines # <<>> /\ lines[1] = Delim
                          THEN Tail(lines) ELSE lines,
                          LAMBDA l : l # "")
        kinds == {IF IsKeyValue(body[i]) THEN "kv" ELSE body[i] : i \in 1..Len(body)}
    IN  IF body = <<>> THEN YamlNone
        ELSE IF "{" \in kinds \/ Delim \in kinds THEN YamlError
        ELSE IF kinds = {"kv"} THEN Mapping(MappingOf(body))
        ELSE IF Cardinality(kinds) = 1 THEN NonMapping
        ELSE YamlError

EmptyMapping == [key \in {} |-> ""]

\* MarkdownSkillParser._parse_frontmatter: the metadata and the markdown, or
\* the exception it raises
ParseFrontmatter(L) ==
    LET m == Match(L)
        metadata == SafeLoad(m.yaml_content)
    IN  IF m = None THEN Raise
        ELSE IF metadata = YamlError THEN Raise
        ELSE IF metadata = YamlNone
        THEN [metadata |-> EmptyMapping, markdown_content |-> m.markdown_content]
        ELSE IF metadata = NonMapping THEN Raise
        ELSE [metadata |-> metadata.value, markdown_content |-> m.markdown_content]

\* a parse() that lets the exceptions of _parse_frontmatter through
FrontmatterUncaught(L) == ParseFrontmatter(L)

\* parse(), lines 106-117: _parse_frontmatter under try/except Exception
FrontmatterOrNone(L) ==
    IF ParseFrontmatter(L) = Raise THEN None ELSE ParseFrontmatter(L)

\* dict.get
MetaGet(metadata, key, default) ==
    IF key \in DOMAIN metadata THEN metadata[key] ELSE default

\* str.strip() on the markdown: the blank lines at both ends go
RECURSIVE StripLeft(_)
StripLeft(lines) ==
    IF lines # <<>> /\ lines[1] = "" THEN StripLeft(Tail(lines)) ELSE lines

RECURSIVE StripRight(_)
StripRight(lines) ==
    IF lines # <<>> /\ lines[Len(lines)] = ""
    THEN StripRight(SubSeq(lines, 1, Len(lines) - 1))
    ELSE lines

Strip(lines) == StripRight(StripLeft(lines))

\* Skill(...): the validators of the model raise on a complexity outside
\* the three levels
SkillRaises(metadata) ==
    MetaGet(metadata, "complexity", "<null>")
        \notin {"<null>", "beginner", "intermediate", "advanced"}

\* a validation that does not look at the body
ValidAtParseAnyBody(metadata, content) ==
    MetaGet(metadata, "has_examples", "false") # "true"

\* Skill.validate_skill() right after construction, the file and its folder
\* being there: the body is not empty, and examples are listed if announced
ValidAtParse(metadata, content) ==
    /\ content # <<>>
    /\ MetaGet(metadata, "has_examples", "false") # "true"

\* MarkdownSkillParser.parse: a record, None, or the exception that leaves it
ParseFile(path, folder_kind, file) ==
    IF ~ValidateFolderStructure(path, folder_kind) THEN None
    ELSE IF file \in {Missing, Unreadable} THEN None
    ELSE IF ~Validate(file.lines) THEN None
    ELSE LET fm == FrontmatterOrNone(file.lines)
         IN  IF fm = None THEN None
             ELSE IF fm = Raise THEN Raise
             ELSE LET name == MetaGet(fm.metadata, "name", "<null>")
                      description == MetaGet(fm.metadata, "description", "<null>")
                      content == Strip(fm.markdown_content)
                  IN  IF Falsy(name) THEN None
                      ELSE IF Falsy(description) THEN None
                      ELSE IF SkillRaises(fm.metadata) THEN None
                      ELSE IF ~ValidAtParse(fm.metadata, content) THEN None
                      ELSE [name |-> name, description |-> description,
                            content |-> content, folder_path |-> path[1]]

\* the calls of the model: the good text at every path and every kind of
\* folder, no file or an unreadable one, every text at a good place
ParseCalls ==
    [path : EventPaths, folder_kind : {"dir", "file", "missing"},
     file : {TextFile(GoodText)}]
        \cup [path : {PathAlpha}, folder_kind : {"dir"},
              file : {Missing, Unreadable} \cup {TextFile(L) : L \in Texts}]

ParseCall ==
    /\ pr.pc = "called"
    /\ pr' = [pr EXCEPT !.pc = "returned",
                        !.out = ParseFile(pr.path, pr.folder_kind, pr.file)]
    /\ UNCHANGED not_pvars

(***************************************************************************)
(* Claims about the parser, checked under SpecParser.                      *)
(***************************************************************************)
\* the text lacks the shape: an opening delimiter line, then a later
\* delimiter line with a newline after it and at least one line in between
Unmatched(L) ==
    ~(/\ Len(L) >= 2
      /\ L[1] = Delim
      /\ \E i \in 3..(Len(L) - 1) : L[i] = Delim)

\* one of the failure classes of parse() applies to the call
FailureClass(path, folder_kind, file) ==
    \/ ~ValidateFolderStructure(path, folder_kind)
    \/ file \in {Missing, Unreadable}
    \/ Unmatched(file.lines)
    \/ ParseFrontmatter(file.lines) = Raise
    \/ LET metadata == ParseFrontmatter(file.lines).metadata
       IN  \/ "name" \notin DOMAIN metadata
           \/ "description" \notin DOMAIN metadata
           \/ Falsy(metadata["name"])
           \/ Falsy(metadata["description"])
           \/ SkillRaises(metadata)
           \/ ~ValidAtParse(metadata,
                           Strip(ParseFrontmatter(file.lines).markdown_content))

\* C15: parse() never raises; for every failure class it returns None.
C15_ParseNeverRaises ==
    pr.pc = "returned"
        => /\ pr.out # Raise
           /\ FailureClass(pr.path, pr.folder_kind, pr.file) => pr.out = None

\* parse() has returned from a well-placed file whose block does not decode
\* to a mapping
C15_Witness ==
    /\ pr.pc = "returned"
    /\ ValidateFolderStructure(pr.path, pr.folder_kind)
    /\ pr.file \notin {Missing, Unreadable}
    /\ ~Unmatched(pr.file.lines)
    /\ ParseFrontmatter(pr.file.lines) = Raise
    /\ pr.out = None

\* the path's containing folder is more than one level below the root, or
\* its name starts with '.' or '_', or is in the ignored set
IneligibleLocation(path) ==
    \/ Len(path) > 2
    \/ /\ Len(path) = 2
       /\ \/ StartsWith(path[1], ".")
          \/ StartsWith(path[1], "_")
          \/ path[1] \in IGNORED_FOLDERS

\* C22: the parser's location check rejects every path whose containing
\* folder is more than one level below the root, or starts with '.' or '_',
\* or is in the ignored set, whatever the file holds; parse() of such a path
\* returns None.
C22_LocationCheckRejects ==
    (pr.pc = "returned" /\ IneligibleLocation(pr.path))
    => /\ ~ValidateFolderStructure(pr.path, pr.folder_kind)
       /\ pr.out = None

\* the same for the paths whose folder name does not start with '_'
C22_RejectsAllButUnderscore ==
    (pr.pc = "returned" /\ IneligibleLocation(pr.path)
        /\ ~(Len(pr.path) = 2 /\ StartsWith(pr.path[1], "_")
                /\ pr.path[1] \notin IGNORED_FOLDERS))
    => /\ ~ValidateFolderStructure(pr.path, pr.folder_kind)
       /\ pr.out = None

\* a root whose one entry is the directory n
RootWithDir(n) ==
    [kind |-> "dir",
     entries |-> [m \in {n} |-> [kind |-> "dir", sentinel |-> Absent, nested |-> Absent]]]

\* scan() takes the path's folder for a skill folder and the file for its
\* SKILL.md
ScanTreatsAsSentinel(path) ==
    /\ Len(path) = 2
    /\ path[2] = SKILL_MD
    /\ IsValidSkillFolder(RootWithDir(path[1]), path[1])

\* C38: for every path below the root whose parent is a directory, the
\* watcher's filter accepts the path iff the parser's location check accepts
\* it iff scan() takes the parent for an eligible folder and the file for
\* its SKILL.md.
C38_LocationPoliciesAgree ==
    (pr.pc = "returned" /\ pr.folder_kind = "dir")
    => /\ IsSkillFileInValidFolder(pr.path)
            <=> ValidateFolderStructure(pr.path, pr.folder_kind)
       /\ ValidateFolderStructure(pr.path, pr.folder_kind)
            <=> ScanTreatsAsSentinel(pr.path)

\* the watcher's filter and scan() agree on every path
C38_WatcherAndScanAgree ==
    pr.folder_kind = "dir"
    => (IsSkillFileInValidFolder(pr.path) <=> ScanTreatsAsSentinel(pr.path))

\* the decoded metadata lacks the key, or holds "" or null for it
LacksTruthy(metadata, key) ==
    key \notin DOMAIN metadata \/ metadata[key] = "" \/ metadata[key] = "<null>"

\* C24: parse() returns None whenever the decoded metadata block lacks the
\* key name or the key description, or holds an empty string or null for
\* either; no record has an empty name or an empty description.
C24_RequiredKeys ==
    pr.pc = "returned"
    => /\ (/\ pr.file \notin {Missing, Unreadable}
           /\ ParseFrontmatter(pr.file.lines) # Raise
           /\ \/ LacksTruthy(ParseFrontmatter(pr.file.lines).metadata, "name")
              \/ LacksTruthy(ParseFrontmatter(pr.file.lines).metadata, "description"))
          => pr.out = None
       /\ pr.out \notin {None, Raise}
          => /\ pr.out.name \notin {"", "<null>"}
             /\ pr.out.description \notin {"", "<null>"}

\* a file at a good place whose block decodes to a mapping with a name and
\* an empty description
C24_Witness ==
    /\ pr.pc = "returned"
    /\ ValidateFolderStructure(pr.path, pr.folder_kind)
    /\ pr.file \notin {Missing, Unreadable}
    /\ ParseFrontmatter(pr.file.lines) # Raise
    /\ DOMAIN ParseFrontmatter(pr.file.lines).metadata = {"name", "description"}
    /\ ParseFrontmatter(pr.file.lines).metadata["name"] = "s1"
    /\ ParseFrontmatter(pr.file.lines).metadata["description"] = ""
    /\ Strip(ParseFrontmatter(pr.file.lines).markdown_content) # <<>>
    /\ pr.out = None

\* the closing delimiter line of a text the pattern matches: the first
\* 3-dash line after the opening and at least one line of block (the texts
\* of the model hold no 3-dash line inside the block)
ClosingLine(L) ==
    CHOOSE c \in 3..Len(L) : L[c] = Delim /\ \A j \in 3..(c - 1) : L[j] # Delim

Parsed == pr.pc = "returned" /\ pr.out \notin {None, Raise}

\* C25: the body of a record that parse() returns contains neither the
\* 3-dash delimiter nor a line of the metadata block.
C25_BodyFreeOfBlock ==
    Parsed
    => \A i \in 1..Len(pr.out.content) :
          /\ pr.out.content[i] # Delim
          /\ \A j \in 2..(ClosingLine(pr.file.lines) - 1) :
                 pr.file.lines[j] # "" => pr.out.content[i] # pr.file.lines[j]

\* C25, amended: the body of a record that parse() returns is the text after
\* the closing delimiter line of the metadata block, stripped; it holds the
\* 3-dash delimiter or a line of the block only where the file repeats them
\* after that line.
C25_BodyIsTextAfterBlock ==
    Parsed
    => LET L == pr.file.lines
           rest == SubSeq(L, ClosingLine(L) + 1, Len(L))
       IN  /\ pr.out.content = Strip(rest)
           /\ \A i \in 1..Len(pr.out.content) :
                  \E j \in 1..Len(rest) : rest[j] = pr.out.content[i]

\* a record whose body holds a 3-dash line of its own
C25_Witness ==
    /\ Parsed
    /\ pr.out.content = <<"text", Delim, "text">>
    /\ pr.out.name = "s1"

\* parse() has returned from a readable SKILL.md in an eligible folder
\* directly below the root, whose text has the shape and whose block decodes
\* to a mapping with a truthy name and description, valid optional fields
\* and no examples
WellFormedCall ==
    /\ pr.pc = "returned"
    /\ Len(pr.path) = 2
    /\ pr.path[2] = SKILL_MD
    /\ ~IneligibleLocation(pr.path)
    /\ pr.folder_kind = "dir"
    /\ pr.file \notin {Missing, Unreadable}
    /\ ~Unmatched(pr.file.lines)
    /\ ParseFrontmatter(pr.file.lines) \notin {None, Raise}
    /\ ~LacksTruthy(ParseFrontmatter(pr.file.lines).metadata, "name")
    /\ ~LacksTruthy(ParseFrontmatter(pr.file.lines).metadata, "description")
    /\ "complexity" \in DOMAIN ParseFrontmatter(pr.file.lines).metadata
          => ParseFrontmatter(pr.file.lines).metadata["complexity"]
                \in {"<null>", "beginner", "intermediate", "advanced"}
    /\ "has_examples" \notin DOMAIN ParseFrontmatter(pr.file.lines).metadata

\* the text after the block
BodyOf(L) == ParseFrontmatter(L).markdown_content

\* every line of the body is empty
BlankBody(L) == \A i \in 1..Len(BodyOf(L)) : BodyOf(L)[i] = ""

C40_WitnessRecord ==
    /\ WellFormedCall
    /\ ~BlankBody(pr.file.lines)
    /\ pr.out \notin {None, Raise}

InitParserVars ==
    \E call \in ParseCalls :
        pr = [pc |-> "called", path |-> call.path, folder_kind |-> call.folder_kind,
              file |-> call.file, out |-> None]

\* no call of parse() on its own
ParserParked ==
    pr = [pc |-> "none", path |-> PathAlpha, folder_kind |-> "dir",
          file |-> Missing, out |-> None]

(***************************************************************************)
(* parsers/markdown.py: _parse_dependencies on what yaml.safe_load gave    *)
(* for the key dependencies.  A Python value is a tagged record; a str is  *)
(* a sequence of characters, a dict a sequence of [key, value] in the      *)
(* order of its keys.                                                      *)
(***************************************************************************)
PyNone == [t |-> "none"]
PyStr(chars) == [t |-> "str", chars |-> chars]
PyInt(digits) == [t |-> "int", digits |-> digits]
PyList(items) == [t |-> "list", items |-> items]
PyDict(entries) == [t |-> "dict", entries |-> entries]

\* str(value), what an f-string puts for {value}, for the scalars
Format(value) ==
    CASE value.t = "str" -> value.chars
      [] value.t = "int" -> value.digits
      [] value.t = "none" -> <<"N", "o", "n", "e">>

\* f"{category}:{item}"
Prefixed(category, item) == PyStr(category \o <<":">> \o Format(item))

Python == <<"p", "y", "t", "h", "o", "n">>
System == <<"s", "y", "s", "t", "e", "m">>

\* the items of a list, the scalar values of a category
DepItems == {PyStr(<<"a">>), PyStr(<<"b">>)}
DepScalars == {PyStr(<<"c">>), PyStr(<<>>), PyInt(<<"1">>), PyNone}

\* lists of up to MaxItems items
DepLists(items) ==
    {PyList(l) : l \in UNION {[1..n -> items] : n \in 0..MaxItems}}

\* what a category maps to: a list of items, or a scalar
DepCategoryValues == DepLists(DepItems) \cup DepScalars

\* mappings of up to two categories, in either order
DepDicts ==
    {PyDict(<<>>)}
        \cup {PyDict(<<[key |-> k, value |-> v]>>) :
                 k \in {Python, System}, v \in DepCategoryValues}
        \cup {PyDict(<<[key |-> kk[1], value |-> v], [key |-> kk[2], value |-> w]>>) :
                 kk \in {<<Python, System>>, <<System, Python>>},
                 v \in DepCategoryValues, w \in DepCategoryValues}

\* the values the key dependencies can decode to
DepValues == DepLists(DepItems \cup {PyNone}) \cup DepDicts \cup DepScalars

\* the inner loop: result.append(f"{category}:{item}") for each item
RECURSIVE AppendItems(_, _, _, _)
AppendItems(result, category, items, i) ==
    IF i > Len(items) THEN result
    ELSE AppendItems(Append(result, Prefixed(category, items[i])), category, items, i + 1)

\* a flattening that skips the categories that are not lists
RECURSIVE FlattenListsOnly(_, _, _)
FlattenListsOnly(result, entries, e) ==
    IF e > Len(entries) THEN result
    ELSE FlattenListsOnly(
             IF entries[e].value.t = "list"
             THEN AppendItems(result, entries[e].key, entries[e].value.items, 1)
             ELSE result,
             entries, e + 1)

\* the loop over deps.items()
RECURSIVE Flatten(_, _, _)
Flatten(result, entries, e) ==
    IF e > Len(entries) THEN result
    ELSE Flatten(
             IF entries[e].value.t = "list"
             THEN AppendItems(result, entries[e].key, entries[e].value.items, 1)
             ELSE Append(result, Prefixed(entries[e].key, entries[e].value)),
             entries, e + 1)

\* _parse_dependencies without the else branch of its loop
ParseDependenciesListsOnly(deps) ==
    IF deps.t = "list" THEN deps.items
    ELSE IF deps.t = "dict" THEN FlattenListsOnly(<<>>, deps.entries, 1)
    ELSE <<>>

\* MarkdownSkillParser._parse_dependencies: the list it returns
ParseDependencies(deps) ==
    IF deps.t = "list" THEN deps.items
    ELSE IF deps.t = "dict" THEN Flatten(<<>>, deps.entries, 1)
    ELSE <<>>

\* parser._parse_dependencies(deps)
ParseDependenciesCall ==
    /\ dp.pc = "called"
    /\ dp' = [dp EXCEPT !.pc = "returned", !.out = ParseDependencies(dp.deps)]
    /\ UNCHANGED not_dvars

\* how many strings a category contributes
Contributes(entry) ==
    IF entry.value.t = "list" THEN Len(entry.value.items) ELSE 1

\* where the strings of the e-th category start in the result
RECURSIVE Offset(_, _)
Offset(entries, e) ==
    IF e = 1 THEN 0 ELSE Offset(entries, e - 1) + Contributes(entries[e - 1])

\* C26: _parse_dependencies returns a list as it is; for a mapping it
\* returns, category after category in key order, "category:item" for each
\* item of a category that is a list and "category:value" for a category
\* that is a scalar; for any other value it returns the empty list; it
\* raises nothing.
C26_DependencyNormalization ==
    dp.pc = "returned"
    => /\ dp.deps.t = "list" => dp.out = dp.deps.items
       /\ dp.deps.t = "dict"
          => LET entries == dp.deps.entries IN
             /\ Len(dp.out) = Offset(entries, Len(entries) + 1)
             /\ \A e \in 1..Len(entries) :
                    IF entries[e].value.t = "list"
                    THEN \A i \in 1..Len(entries[e].value.items) :
                            dp.out[Offset(entries, e) + i]
                                = PyStr(entries[e].key \o <<":">>
                                            \o entries[e].value.items[i].chars)
                    ELSE dp.out[Offset(entries, e) + 1]
                            = PyStr(entries[e].key \o <<":">>
                                        \o Format(entries[e].value))
       /\ dp.deps.t \notin {"list", "dict"} => dp.out = <<>>

\* {python: [a, b], system: c} gave [python:a, python:b, system:c]
C26_Witness ==
    /\ dp.pc = "returned"
    /\ dp.deps = PyDict(<<[key |-> Python, value |-> PyList(<<PyStr(<<"a">>), PyStr(<<"b">>)>>)],
                          [key |-> System, value |-> PyStr(<<"c">>)]>>)
    /\ dp.out = << PyStr(<<"p", "y", "t", "h", "o", "n", ":", "a">>),
                   PyStr(<<"p", "y", "t", "h", "o", "n", ":", "b">>),
                   PyStr(<<"s", "y", "s", "t", "e", "m", ":", "c">>) >>

InitDependenciesVars ==
    \E deps \in DepValues : dp = [pc |-> "called", deps |-> deps, out |-> <<>>]

\* no call of _parse_dependencies on its own
DependenciesParked == dp = [pc |-> "none", deps |-> PyNone, out |-> <<>>]

(***************************************************************************)
(* storage/repository.py: SkillRepository, and models/skill.py's           *)
(* validate_skill that add() runs.  Names and descriptions are sequences   *)
(* of characters, so that ordering, lower() and `in` are computed.         *)
(***************************************************************************)
UpperCase ==
    << "A", "B", "C", "D", "E", "F", "G", "H", "I", "J", "K", "L", "M",
       "N", "O", "P", "Q", "R", "S", "T", "U", "V", "W", "X", "Y", "Z" >>

LowerCase ==
    << "a", "b", "c", "d", "e", "f", "g", "h", "i", "j", "k", "l", "m",
       "n", "o", "p", "q", "r", "s", "t", "u", "v", "w", "x", "y", "z" >>

\* str.lower(), one character
LowerChar(c) ==
    IF \E i \in 1..Len(UpperCase) : UpperCase[i] = c
    THEN LowerCase[CHOOSE i \in 1..Len(UpperCase) : UpperCase[i] = c]
    ELSE c

\* str.lower()
Lower(s) == [i \in 1..Len(s) |-> LowerChar(s[i])]

\* `q in s` on two strings
IsSubstring(q, s) ==
    \E i \in 0..(Len(s) - Len(q)) : SubSeq(s, i + 1, i + Len(q)) = q

\* `x in list`
InList(x, list) == \E i \in 1..Len(list) : list[i] = x

\* an entry of example_files is a relative path, a sequence of names
Ex1 == <<"e", "x", "1">>
Ex2 == <<"e", "x", "2">>
DotDot == <<".", ".">>
InFolder == <<Ex1>>
AlsoInFolder == <<Ex2>>
Outside == <<DotDot, Beta, SKILL_MD>>

\* where a path, a sequence of names below the root, leads after the names
\* of a relative path are followed; `..` leads to the parent
RECURSIVE Follow(_, _)
Follow(path, names) ==
    IF names = <<>> THEN path
    ELSE IF Head(names) = DotDot
    THEN Follow(SubSeq(path, 1, Len(path) - 1), Tail(names))
    ELSE Follow(Append(path, Head(names)), Tail(names))

\* self.folder_path / example_file, as exists() resolves it
ExamplePath(folder_path, example_file) == Follow(<<folder_path>>, example_file)

\* a Skill as the repository sees it; path_parent is self.path.parent,
\* "<null>" is Python's None in an Optional[str] field
SkillAb1 ==
    [name |-> <<"a", "b">>, description |-> <<"D", "a">>, content |-> "body",
     path_parent |-> Alpha, folder_path |-> Alpha, category |-> "c1",
     tags |-> <<"t1">>, complexity |-> "beginner",
     has_examples |-> FALSE, example_files |-> <<>>]

\* the same name, defined by another folder
SkillAb2 ==
    [name |-> <<"a", "b">>, description |-> <<"b">>, content |-> "body",
     path_parent |-> Beta, folder_path |-> Beta, category |-> "",
     tags |-> <<>>, complexity |-> "<null>",
     has_examples |-> FALSE, example_files |-> <<>>]

\* an upper-case name: "D" < "ab" < "d" in Python's string order
SkillUpper ==
    [name |-> <<"D">>, description |-> <<"a", "b">>, content |-> "body",
     path_parent |-> Beta, folder_path |-> Beta, category |-> "c1",
     tags |-> <<"t1", "t2">>, complexity |-> "advanced",
     has_examples |-> FALSE, example_files |-> <<>>]

SkillLower ==
    [name |-> <<"d">>, description |-> <<"E">>, content |-> "body",
     path_parent |-> Alpha, folder_path |-> Alpha, category |-> "<null>",
     tags |-> <<"t2">>, complexity |-> "beginner",
     has_examples |-> TRUE, example_files |-> <<InFolder>>]

\* what validate_skill finds on disk: self.path.exists(), the folder
\* ("dir", "file" or "missing"), and the files that exist, as paths below
\* the root
GoodDisk == [path_exists |-> TRUE, folder |-> "dir", files |-> {<<Alpha, Ex1>>}]

\* the records that pass validate_skill, each with the disk it was built from
ValidInputs == {[skill |-> s, disk |-> GoodDisk] : s \in {SkillAb1, SkillAb2, SkillUpper, SkillLower}}

\* SkillAb2 and SkillLower with one or two defects each
InvalidInputs ==
    { [skill |-> [SkillAb2 EXCEPT !.content = ""], disk |-> GoodDisk],
      [skill |-> [SkillAb2 EXCEPT !.description = <<>>], disk |-> GoodDisk],
      [skill |-> SkillAb2, disk |-> [GoodDisk EXCEPT !.path_exists = FALSE]],
      [skill |-> SkillAb2, disk |-> [GoodDisk EXCEPT !.folder = "file"]],
      [skill |-> SkillAb2,
       disk |-> [path_exists |-> FALSE, folder |-> "missing", files |-> {}]],
      [skill |-> [SkillAb2 EXCEPT !.path_parent = Alpha], disk |-> GoodDisk],
      [skill |-> [SkillAb2 EXCEPT !.has_examples = TRUE], disk |-> GoodDisk],
      [skill |-> SkillLower, disk |-> [GoodDisk EXCEPT !.files = {}]],
      [skill |-> [SkillLower EXCEPT !.example_files = <<>>], disk |-> GoodDisk] }

AddInputs == ValidInputs \cup InvalidInputs

\* the names callers ask for: the three above and one nobody defines
RepoNames == {<<"a", "b">>, <<"D">>, <<"d">>, <<"e">>}

\* example_path.exists(): every name on the way is looked up, so nothing
\* is found through a folder that is not a directory
ExampleExists(folder_path, example_file, disk) ==
    /\ disk.folder = "dir"
    /\ ExamplePath(folder_path, example_file) \in disk.files

RECURSIVE MissingExamples(_, _, _, _)
MissingExamples(folder_path, files, i, disk) ==
    IF i > Len(files) THEN <<>>
    ELSE (IF ExampleExists(folder_path, files[i], disk)
          THEN <<>> ELSE <<"example file not found">>)
         \o MissingExamples(folder_path, files, i + 1, disk)

\* Skill.validate_skill: the list of errors, in the order the code appends
validate_skill(skill, disk) ==
    (IF skill.name = <<>> THEN <<"name required">> ELSE <<>>)
    \o (IF skill.description = <<>> THEN <<"description required">> ELSE <<>>)
    \o (IF skill.content = "" THEN <<"content required">> ELSE <<>>)
    \o (IF ~disk.path_exists THEN <<"file not found">> ELSE <<>>)
    \o (IF disk.folder = "missing" THEN <<"folder not found">>
        ELSE IF disk.folder # "dir" THEN <<"folder not a directory">>
        ELSE <<>>)
    \o (IF skill.path_parent # skill.folder_path THEN <<"invalid folder structure">> ELSE <<>>)
    \o (IF skill.has_examples /\ skill.example_files = <<>>
        THEN <<"has_examples without example_files">> ELSE <<>>)
    \o MissingExamples(skill.folder_path, skill.example_files, 1, disk)

\* add() that stores whatever it is given
RepositoryAddUnvalidated(d, skill, disk) ==
    [skills |-> Add(d, skill), raised |-> FALSE]

\* SkillRepository.add: validate, raise ValueError, or insert / overwrite
RepositoryAdd(d, skill, disk) ==
    IF validate_skill(skill, disk) # <<>>
    THEN [skills |-> d, raised |-> TRUE]
    ELSE [skills |-> Add(d, skill), raised |-> FALSE]

\* SkillRepository.count
Count(d) == Len(d)

\* sorted(..., key=lambda s: s.name) inserts each element after the ones
\* whose name is not greater (the sort is stable)
RECURSIVE InsertByName(_, _)
InsertByName(sorted, r) ==
    IF sorted = <<>> THEN <<r>>
    ELSE IF NameLess(r.name, sorted[1].name) THEN <<r>> \o sorted
    ELSE <<sorted[1]>> \o InsertByName(Tail(sorted), r)

RECURSIVE SortedByName(_)
SortedByName(list) ==
    IF list = <<>> THEN <<>>
    ELSE InsertByName(SortedByName(SubSeq(list, 1, Len(list) - 1)), list[Len(list)])

\* get_all() that returns the dict's values as they are stored
GetAllUnsorted(d) == d

\* SkillRepository.get_all
GetAll(d) == SortedByName(d)

\* an Optional[str] query: None, or a text
Query(text) == [text |-> text]

Queries ==
    {None, Query(<<>>), Query(<<"a">>), Query(<<"A", "B">>), Query(<<"d", "a">>),
     Query(<<"e", "e">>)}

\* the arguments of search(); "<null>" is None, "" the empty string; a call
\* passes at most MaxFilters of the four
SearchCalls ==
    {a \in [query : Queries,
            category : {"<null>", "", "c1", "c2"},
            tag : {"<null>", "", "t1", "t2"},
            complexity : {"<null>", "beginner", "Beginner"}] :
        Cardinality({f \in {"category", "tag", "complexity"} : a[f] # "<null>"})
            + (IF a.query = None THEN 0 ELSE 1) <= MaxFilters}

\* Python's truth value of an Optional[str] argument
Truthy(v) == v \notin {"<null>", ""}

QueryTruthy(q) == q # None /\ q.text # <<>>

\* the four list comprehensions of search(), one after the other
FilterQuery(results, q) ==
    IF QueryTruthy(q)
    THEN SelectSeq(results, LAMBDA s : \/ IsSubstring(Lower(q.text), Lower(s.name))
                                       \/ IsSubstring(Lower(q.text), Lower(s.description)))
    ELSE results

FilterCategory(results, category) ==
    IF Truthy(category)
    THEN SelectSeq(results, LAMBDA s : s.category = category)
    ELSE results

FilterTag(results, tag) ==
    IF Truthy(tag)
    THEN SelectSeq(results, LAMBDA s : InList(tag, s.tags))
    ELSE results

FilterComplexity(results, complexity) ==
    IF Truthy(complexity)
    THEN SelectSeq(results, LAMBDA s : s.complexity = complexity)
    ELSE results

\* SkillRepository.search
Search(d, a) ==
    SortedByName(
        FilterComplexity(FilterTag(FilterCategory(FilterQuery(d, a.query), a.category),
                                   a.tag), a.complexity))

\* list.sort() on a list of names
RECURSIVE InsertName(_, _)
InsertName(sorted, n) ==
    IF sorted = <<>> THEN <<n>>
    ELSE IF NameLess(n, sorted[1]) THEN <<n>> \o sorted
    ELSE <<sorted[1]>> \o InsertName(Tail(sorted), n)

RECURSIVE SortNames(_)
SortNames(list) ==
    IF list = <<>> THEN <<>>
    ELSE InsertName(SortNames(SubSeq(list, 1, Len(list) - 1)), list[Len(list)])

\* category = skill.category or "uncategorized"
GroupKey(skill) == IF Truthy(skill.category) THEN skill.category ELSE "uncategorized"

\* the first loop of group_by_category: groups, a dict in insertion order,
\* as a sequence of [key, names]
RECURSIVE CollectGroups(_, _, _)
CollectGroups(d, i, groups) ==
    IF i > Len(d) THEN groups
    ELSE LET key == GroupKey(d[i]) IN
         CollectGroups(d, i + 1,
             IF \E g \in 1..Len(groups) : groups[g].key = key
             THEN [g \in 1..Len(groups) |->
                      IF groups[g].key = key
                      THEN [groups[g] EXCEPT !.names = Append(@, d[i].name)]
                      ELSE groups[g]]
             ELSE Append(groups, [key |-> key, names |-> <<d[i].name>>]))

\* group_by_category() that leaves each group in insertion order
GroupByCategoryUnsorted(d) == CollectGroups(d, 1, <<>>)

\* SkillRepository.group_by_category
GroupByCategory(d) ==
    LET groups == CollectGroups(d, 1, <<>>) IN
    [g \in 1..Len(groups) |-> [groups[g] EXCEPT !.names = SortNames(@)]]

NoLatest == [n \in RepoNames |-> None]

Called(op, arg, before, raised, result) ==
    [op |-> op, arg |-> arg, before |-> before, raised |-> raised, result |-> result]

\* repo.add(skill)
AddCall ==
    \E input \in AddInputs :
        LET out == RepositoryAdd(repo_skills, input.skill, input.disk) IN
        /\ repo_skills' = out.skills
        /\ repo_call' = Called("add", input, repo_skills, out.raised, None)
        /\ repo_latest' = IF out.raised THEN repo_latest
                          ELSE [repo_latest EXCEPT ![input.skill.name] = input.skill]
        /\ last_all' = None
        /\ UNCHANGED not_rvars

\* repo.remove(name)
RemoveCall ==
    \E name \in RepoNames :
        /\ repo_skills' = Remove(repo_skills, name)
        /\ repo_call' = Called("remove", name, repo_skills, FALSE, None)
        /\ repo_latest' = [repo_latest EXCEPT ![name] = None]
        /\ last_all' = None
        /\ UNCHANGED not_rvars

\* repo.clear()
ClearCall ==
    /\ repo_skills' = <<>>
    /\ repo_call' = Called("clear", None, repo_skills, FALSE, None)
    /\ repo_latest' = NoLatest
    /\ last_all' = None
    /\ UNCHANGED not_rvars

\* repo.get(name)
GetCall ==
    \E name \in RepoNames :
        /\ repo_call' = Called("get", name, repo_skills, FALSE, Get(repo_skills, name))
        /\ UNCHANGED <<repo_skills, repo_latest, last_all>>
        /\ UNCHANGED not_rvars

\* repo.count()
CountCall ==
    /\ repo_call' = Called("count", None, repo_skills, FALSE, Count(repo_skills))
    /\ UNCHANGED <<repo_skills, repo_latest, last_all>>
    /\ UNCHANGED not_rvars

\* repo.get_all()
GetAllCall ==
    /\ repo_call' = Called("get_all", None, repo_skills, FALSE, GetAll(repo_skills))
    /\ last_all' = [all |-> GetAll(repo_skills)]
    /\ UNCHANGED <<repo_skills, repo_latest>>
    /\ UNCHANGED not_rvars

\* repo.search(query, category, tag, complexity)
SearchCall ==
    \E a \in SearchCalls :
        /\ repo_call' = Called("search", a, repo_skills, FALSE, Search(repo_skills, a))
        /\ UNCHANGED <<repo_skills, repo_latest, last_all>>
        /\ UNCHANGED not_rvars

\* repo.group_by_category()
GroupByCategoryCall ==
    /\ repo_call' = Called("group_by_category", None, repo_skills, FALSE,
                           GroupByCategory(repo_skills))
    /\ UNCHANGED <<repo_skills, repo_latest, last_all>>
    /\ UNCHANGED not_rvars

(***************************************************************************)
(* Claims about the repository.                                            *)
(***************************************************************************)
\* C16: add() of a record that fails validate_skill raises, and the catalog
\* is exactly what it was before the call: nothing inserted, nothing
\* overwritten, the same count.
C16_AddRejectsInvalid ==
    (repo_call.op = "add"
        /\ validate_skill(repo_call.arg.skill, repo_call.arg.disk) # <<>>)
    => /\ repo_call.raised
       /\ repo_skills = repo_call.before
       /\ Count(repo_skills) = Count(repo_call.before)

\* an invalid record was refused while the catalog held a record of its name
C16_Witness ==
    /\ repo_call.op = "add"
    /\ validate_skill(repo_call.arg.skill, repo_call.arg.disk) # <<>>
    /\ repo_call.raised
    /\ HasName(repo_call.before, repo_call.arg.skill.name)
    /\ Get(repo_skills, repo_call.arg.skill.name) # repo_call.arg.skill

\* C17: after any sequence of add / remove / clear the catalog holds at most
\* one record per name; get(n) is the record of the most recent add of name
\* n that succeeded and was not followed by remove(n) or clear(), whatever
\* folder each add came from; re-adding a name the catalog holds leaves
\* count() as it was.
C17_LastWriterWins ==
    /\ \A i, j \in 1..Len(repo_skills) :
           repo_skills[i].name = repo_skills[j].name => i = j
    /\ \A n \in RepoNames : Get(repo_skills, n) = repo_latest[n]
    /\ (repo_call.op = "get" => repo_call.result = repo_latest[repo_call.arg])
    /\ (repo_call.op = "add" /\ ~repo_call.raised
            /\ HasName(repo_call.before, repo_call.arg.skill.name))
       => Count(repo_skills) = Count(repo_call.before)

\* a record replaced the record of its name that another folder had defined
C17_Witness ==
    /\ repo_call.op = "add"
    /\ ~repo_call.raised
    /\ HasName(repo_call.before, repo_call.arg.skill.name)
    /\ Get(repo_call.before, repo_call.arg.skill.name).folder_path
           # repo_call.arg.skill.folder_path
    /\ Get(repo_skills, repo_call.arg.skill.name) = repo_call.arg.skill
    /\ Count(repo_skills) = 2

\* C18: remove(name) deletes exactly the entry of that name and leaves every
\* other entry, and their order, as it was; for a name the catalog does not
\* hold it raises nothing and changes nothing.
C18_RemoveFrame ==
    repo_call.op = "remove"
    => /\ ~repo_call.raised
       /\ ~HasName(repo_skills, repo_call.arg)
       /\ repo_skills = SelectSeq(repo_call.before, LAMBDA s : s.name # repo_call.arg)
       /\ \A n \in RepoNames \ {repo_call.arg} :
              Get(repo_skills, n) = Get(repo_call.before, n)
       /\ (~HasName(repo_call.before, repo_call.arg) => repo_skills = repo_call.before)

\* the first of three entries was removed and the two after it stayed
C18_Witness ==
    /\ repo_call.op = "remove"
    /\ Len(repo_call.before) = 3
    /\ repo_call.before[1].name = repo_call.arg
    /\ repo_skills = Tail(repo_call.before)

\* remove() of a name the catalog, which is not empty, does not hold
C18_WitnessAbsent ==
    /\ repo_call.op = "remove"
    /\ repo_call.before # <<>>
    /\ ~HasName(repo_call.before, repo_call.arg)

\* C19: get_all() returns every record of the catalog exactly once, in
\* ascending order of name, whatever order the records were inserted in; and
\* a get_all() that follows another with no add, remove or clear in between
\* returns the same sequence.
C19_GetAllSorted ==
    /\ [](repo_call.op = "get_all"
            => /\ Len(repo_call.result) = Len(repo_call.before)
               /\ Values(repo_call.result) = Values(repo_call.before)
               /\ \A i, j \in 1..Len(repo_call.result) :
                      i < j => NameLess(repo_call.result[i].name,
                                        repo_call.result[j].name))
    /\ [][(repo_call'.op = "get_all" /\ last_all # None)
              => repo_call'.result = last_all.all]_vars

\* three records inserted in an order that is not the order of their names
C19_Witness ==
    /\ repo_call.op = "get_all"
    /\ Len(repo_call.before) = 3
    /\ repo_call.result # repo_call.before
    /\ NameLess(repo_call.before[3].name, repo_call.before[1].name)

\* an argument of search() that the caller passed (anything but None)
Provided(v) == v # "<null>"

\* the record satisfies every filter the call provides
Satisfies(s, a) ==
    /\ a.query # None
          => \/ IsSubstring(Lower(a.query.text), Lower(s.name))
             \/ IsSubstring(Lower(a.query.text), Lower(s.description))
    /\ Provided(a.category) => s.category = a.category
    /\ Provided(a.tag) => InList(a.tag, s.tags)
    /\ Provided(a.complexity) => s.complexity = a.complexity

\* C20: search(query, category, tag, complexity) returns, in ascending order
\* of name, exactly the records that satisfy every filter provided (query: a
\* case-insensitive substring of the name or the description; category and
\* complexity: equality; tag: membership in the tag list); with no filter it
\* returns what get_all() returns, and filters that no record satisfies
\* together give the empty sequence.
C20_SearchFilters ==
    repo_call.op = "search"
    => /\ Values(repo_call.result)
              = {s \in Values(repo_call.before) : Satisfies(s, repo_call.arg)}
       /\ \A i, j \in 1..Len(repo_call.result) :
              i < j => NameLess(repo_call.result[i].name, repo_call.result[j].name)
       /\ (repo_call.arg.query = None /\ ~Provided(repo_call.arg.category)
               /\ ~Provided(repo_call.arg.tag) /\ ~Provided(repo_call.arg.complexity))
          => repo_call.result = GetAll(repo_call.before)

\* the same for calls none of whose arguments is an empty string
C20_SearchNonEmptyFilters ==
    (repo_call.op = "search" /\ repo_call.arg.category # "" /\ repo_call.arg.tag # "")
    => C20_SearchFilters

RECURSIVE GroupSizes(_, _)
GroupSizes(groups, g) ==
    IF g > Len(groups) THEN 0 ELSE Len(groups[g].names) + GroupSizes(groups, g + 1)

\* the groups partition the catalog under the key function `key`: each
\* record's name is in exactly one group, the one `key` gives it; each
\* group's names ascend; the sizes sum to count()
GroupsPartition(groups, d, key(_)) ==
    /\ \A g, h \in 1..Len(groups) : groups[g].key = groups[h].key => g = h
    /\ \A i \in 1..Len(d) :
           \A g \in 1..Len(groups) :
               InList(d[i].name, groups[g].names) <=> groups[g].key = key(d[i])
    /\ \A i \in 1..Len(d) : \E g \in 1..Len(groups) : groups[g].key = key(d[i])
    /\ \A g \in 1..Len(groups) :
           \A i, j \in 1..Len(groups[g].names) :
               i < j => NameLess(groups[g].names[i], groups[g].names[j])
    /\ GroupSizes(groups, 1) = Count(d)

\* the key of a record: its category, "uncategorized" when it has none
KeyWhenAbsent(skill) ==
    IF skill.category = "<null>" THEN "uncategorized" ELSE skill.category

\* C21: group_by_category() partitions the catalog: every record's name is in
\* exactly one group, the group keyed by the record's category, or by
\* "uncategorized" when the record has no category; each group's names are
\* in ascending order and the group sizes sum to count().
C21_GroupsByCategory ==
    repo_call.op = "group_by_category"
    => GroupsPartition(repo_call.result, repo_call.before, KeyWhenAbsent)

\* C21, amended: the same, with "uncategorized" the key of a record whose
\* category is None or the empty string.
C21_GroupsByCategoryAmended ==
    repo_call.op = "group_by_category"
    => GroupsPartition(repo_call.result, repo_call.before, GroupKey)

\* two records share a category and were inserted against the order of
\* their names; a third has no category
C21_Witness ==
    /\ repo_call.op = "group_by_category"
    /\ Len(repo_call.before) = 3
    /\ Len(repo_call.result) = 2
    /\ \E g \in 1..2 : /\ repo_call.result[g].key = "c1"
                        /\ repo_call.result[g].names = <<SkillUpper.name, SkillAb1.name>>
    /\ \E i, j \in 1..3 : /\ i < j
                           /\ repo_call.before[i] = SkillAb1
                           /\ repo_call.before[j] = SkillUpper
    /\ \E g \in 1..2 : repo_call.result[g].key = "uncategorized"

InitRepositoryVars ==
    /\ repo_skills = <<>>
    /\ repo_call = Called("init", None, <<>>, FALSE, None)
    /\ repo_latest = NoLatest
    /\ last_all = None

\* a repository nobody calls
RepositoryParked == InitRepositoryVars

(***************************************************************************)
(* models/skill.py: validate_skill as parse() runs it on the Skill it has  *)
(* just built (markdown.py:169-181), over records and disks of all kinds.  *)
(***************************************************************************)
\* lists of up to MaxExamples entries
ExampleLists ==
    UNION {[1..n -> {InFolder, AlsoInFolder, Outside}] : n \in 0..MaxExamples}

\* the records parse() builds for alpha/SKILL.md; path.parent is the folder
\* unless the caller built the Skill itself
ValidationSkills ==
    {[SkillAb1 EXCEPT !.content = c, !.path_parent = pp,
                      !.has_examples = h, !.example_files = e] :
        c \in {"", "body"}, pp \in {Alpha, Beta}, h \in BOOLEAN, e \in ExampleLists}

\* the disks: the folder alpha with any of its two example files, or no
\* such directory; beta/SKILL.md there or not
ValidationDisks ==
    {[path_exists |-> pe, folder |-> "dir", files |-> f] :
        pe \in BOOLEAN,
        f \in SUBSET {<<Alpha, Ex1>>, <<Alpha, Ex2>>, <<Beta, SKILL_MD>>}}
    \cup
    {[path_exists |-> FALSE, folder |-> k, files |-> f] :
        k \in {"file", "missing"}, f \in SUBSET {<<Beta, SKILL_MD>>}}

\* validate_skill that returns at the first error
ValidateFirstOnly(skill, disk) ==
    IF validate_skill(skill, disk) = <<>> THEN <<>>
    ELSE <<validate_skill(skill, disk)[1]>>

\* is_valid, errors = skill.validate_skill()
ValidateSkillErrors(skill, disk) == validate_skill(skill, disk)

\* parse(), lines 169-181: None if the errors are not empty, else the Skill
ValidateCall ==
    /\ vs.pc = "called"
    /\ LET errors == ValidateSkillErrors(vs.skill, vs.disk) IN
       vs' = [vs EXCEPT !.pc = "returned",
                        !.errors = errors,
                        !.out = IF errors # <<>> THEN None ELSE vs.skill]
    /\ UNCHANGED not_vvars

\* how often an error is in the list
Times(errors, e) == Cardinality({i \in 1..Len(errors) : errors[i] = e})

\* the file a listed example names exists, and is under the source folder
ExistsUnderFolder(skill, disk, example_file) ==
    LET target == ExamplePath(skill.folder_path, example_file) IN
    /\ disk.folder = "dir"
    /\ target \in disk.files
    /\ Len(target) > 1
    /\ target[1] = skill.folder_path

\* the violations of a record, whatever `missing` says of a listed example
Violations(skill, disk, missing(_)) ==
    [content |-> IF skill.content = "" THEN 1 ELSE 0,
     file |-> IF disk.path_exists THEN 0 ELSE 1,
     folder |-> IF disk.folder = "dir" THEN 0 ELSE 1,
     structure |-> IF skill.path_parent = skill.folder_path THEN 0 ELSE 1,
     mismatch |-> IF skill.has_examples /\ skill.example_files = <<>> THEN 1 ELSE 0,
     examples |-> Cardinality({i \in 1..Len(skill.example_files) :
                                  missing(skill.example_files[i])})]

\* every violation is in the list of errors, as often as it occurs, and a
\* record with an error is not returned by parse()
ReportsAll(v) ==
    /\ Times(vs.errors, "content required") = v.content
    /\ Times(vs.errors, "file not found") = v.file
    /\ Times(vs.errors, "folder not found")
           + Times(vs.errors, "folder not a directory") = v.folder
    /\ Times(vs.errors, "invalid folder structure") = v.structure
    /\ Times(vs.errors, "has_examples without example_files") = v.mismatch
    /\ Times(vs.errors, "example file not found") = v.examples
    /\ Len(vs.errors) = v.content + v.file + v.folder + v.structure + v.mismatch + v.examples
    /\ (vs.errors = <<>>) <=> (vs.out = vs.skill)
    /\ (vs.errors # <<>>) <=> (vs.out = None)

\* C27: validation reports every violation, not only the first:
\* has_examples with an empty example list as the mismatch, each listed
\* example file that does not exist under the source folder as missing; the
\* record is valid once the listed files exist; a record with any violation
\* is not returned by parse().
C27_ReportsEveryViolation ==
    vs.pc = "returned"
    => ReportsAll(Violations(vs.skill, vs.disk,
                             LAMBDA f : ~ExistsUnderFolder(vs.skill, vs.disk, f)))

\* the same, a listed example counting as missing when nothing exists at
\* folder_path / example_file, under the folder or not
C27_ReportsEveryViolationFound ==
    vs.pc = "returned"
    => ReportsAll(Violations(vs.skill, vs.disk,
                             LAMBDA f : ~(/\ vs.disk.folder = "dir"
                                          /\ ExamplePath(vs.skill.folder_path, f)
                                                 \in vs.disk.files)))

InitValidationVars ==
    \E skill \in ValidationSkills, disk \in ValidationDisks :
        vs = [pc |-> "called", skill |-> skill, disk |-> disk,
              errors |-> <<>>, out |-> None]

\* no validate_skill() on its own
ValidationParked ==
    vs = [pc |-> "none", skill |-> SkillAb1, disk |-> GoodDisk,
          errors |-> <<>>, out |-> None]

InitServerVars ==
    /\ tree \in [Folders -> FileContents]
    /\ skills = <<>>
    /\ server_pc = "new"
    /\ reload_pc = "idle"
    /\ scan_idx = 0
    /\ scanned = <<>>
    /\ add_idx = 0
    /\ loaded_count = 0
    /\ failed_count = 0
    /\ pending = [f \in Folders |-> FALSE]
    /\ loop_queue = <<>>
    /\ read_during = "never"
    /\ rejected = {}

InitWatcherVars ==
    /\ skills_dir_exists \in BOOLEAN
    /\ is_watching = FALSE
    /\ observer = "none"
    /\ monitor = "none"
    /\ stop_pc = "idle"
    /\ debounce_timers = [p \in AcceptedPaths |-> 0]
    /\ timers = [t \in TimerIds |-> DeadTimer]
    /\ next_timer = 1
    /\ n_observers = 0
    /\ n_calls = 0
    /\ last_call = [op |-> "new", was_watching |-> FALSE, returned |-> TRUE]
    /\ submitted = [p \in AcceptedPaths |-> 0]
    /\ accepted = [p \in AcceptedPaths |-> 0]
    /\ since_accept = [p \in AcceptedPaths |-> -1]
    /\ all_close = [p \in AcceptedPaths |-> TRUE]
    /\ all_far = [p \in AcceptedPaths |-> TRUE]
    /\ ever_stopped = FALSE
    /\ inflight_at_stop = {}

\* a component that takes no step: the watcher with its directory, the
\* server over an empty tree
WatcherParked ==
    /\ InitWatcherVars
    /\ skills_dir_exists = TRUE

ServerParked ==
    /\ InitServerVars
    /\ tree = [f \in Folders |-> Absent]

\* the watcher alone: the server is constructed and never started
InitWatcher ==
    /\ InitWatcherVars
    /\ ServerParked
    /\ ScannerParked
    /\ HandlerParked
    /\ ParserParked
    /\ RepositoryParked
    /\ DependenciesParked
    /\ ValidationParked

NextWatcher ==
    \/ Tick
    \/ \E e \in Events : HandleEvent(e.path, e.is_directory)
    \/ \E t \in TimerIds : TimerExpire(t)
    \/ \E t \in TimerIds : TriggerCallback(t)
    \/ Start
    \/ StopBegin
    \/ \E thread_ended \in BOOLEAN : StopJoin(thread_ended)
    \/ StopCleanup

SpecWatcher == InitWatcher /\ [][NextWatcher]_vars

\* the owner thread is scheduled: a stop() under way takes its next step
SpecWatcherFair ==
    /\ SpecWatcher
    /\ WF_vars(\E thread_ended \in BOOLEAN : StopJoin(thread_ended))
    /\ WF_vars(StopCleanup)

\* the server alone: its watcher is the pending timers and the loop's queue
InitServer ==
    /\ InitServerVars
    /\ WatcherParked
    /\ ScannerParked
    /\ HandlerParked
    /\ ParserParked
    /\ RepositoryParked
    /\ DependenciesParked
    /\ ValidationParked

NextServer ==
    \/ \E f \in Folders, c \in FileContents : FsWrite(f, c)
    \/ \E f \in Folders : TimerFire(f)
    \/ OnSkillChange
    \/ ReloadCall
    \/ ScanFolder
    \/ ScanReturn
    \/ ReloadClear
    \/ ReloadAdd
    \/ ReloadReturn
    \/ StartWatcher
    \/ Read

SpecServer == InitServer /\ [][NextServer]_vars

\* the scanner alone: one scan() of any of the trees
InitScanner ==
    /\ InitScannerVars
    /\ WatcherParked
    /\ ServerParked
    /\ HandlerParked
    /\ ParserParked
    /\ RepositoryParked
    /\ DependenciesParked
    /\ ValidationParked

NextScanner ==
    \/ ScanBegin
    \/ ScanRound
    \/ ScanEnd

SpecScanner == InitScanner /\ [][NextScanner]_vars

\* one call of _on_skill_change alone
InitHandler ==
    /\ InitHandlerVars
    /\ WatcherParked
    /\ ServerParked
    /\ ScannerParked
    /\ ParserParked
    /\ RepositoryParked
    /\ DependenciesParked
    /\ ValidationParked

NextHandler == HandleChangeCall

SpecHandler == InitHandler /\ [][NextHandler]_vars

\* one call of parse() alone
InitParser ==
    /\ InitParserVars
    /\ WatcherParked
    /\ ServerParked
    /\ ScannerParked
    /\ HandlerParked
    /\ RepositoryParked
    /\ DependenciesParked
    /\ ValidationParked

NextParser == ParseCall

SpecParser == InitParser /\ [][NextParser]_vars

\* the repository alone, under any sequence of calls
InitRepository ==
    /\ InitRepositoryVars
    /\ WatcherParked
    /\ ServerParked
    /\ ScannerParked
    /\ HandlerParked
    /\ ParserParked
    /\ DependenciesParked
    /\ ValidationParked

NextRepository ==
    \/ AddCall
    \/ RemoveCall
    \/ ClearCall
    \/ GetCall
    \/ CountCall
    \/ GetAllCall
    \/ SearchCall
    \/ GroupByCategoryCall

SpecRepository == InitRepository /\ [][NextRepository]_vars

\* one call of _parse_dependencies
InitDependencies ==
    /\ InitDependenciesVars
    /\ WatcherParked
    /\ ServerParked
    /\ ScannerParked
    /\ HandlerParked
    /\ ParserParked
    /\ RepositoryParked
    /\ ValidationParked

NextDependencies == ParseDependenciesCall

SpecDependencies == InitDependencies /\ [][NextDependencies]_vars

\* one validate_skill() at the end of parse()
InitValidation ==
    /\ InitValidationVars
    /\ WatcherParked
    /\ ServerParked
    /\ ScannerParked
    /\ HandlerParked
    /\ ParserParked
    /\ RepositoryParked
    /\ DependenciesParked

NextValidation == ValidateCall

SpecValidation == InitValidation /\ [][NextValidation]_vars

====
